---- MODULE Spec2Model ----
(***************************************************************************)
(* Model of @bunary/http: the route table, path compilation and matching,  *)
(* constraints, route groups, the fluent route builder, the middleware     *)
(* chain cache and the middleware execution pipeline.                      *)
(*                                                                         *)
(* Strings of the program (paths, parameter names, route names) are        *)
(* sequences of one-character strings, so that slicing, concatenation and   *)
(* regular-expression matching are computed, not assumed.                   *)
(* Constraint rules are the non-global, non-sticky regular expressions the *)
(* named helpers build; RegExp.test of such an expression has no state.    *)
(***************************************************************************)
EXTENDS Integers, Sequences, FiniteSets, TLC

VARIABLES
    routes,                  \* app.ts: const routes: Route[]
    middlewares,             \* app.ts: const middlewares: Middleware[]
    namedRoutes,             \* app.ts: const namedRoutes: Map<string, Route>
    globalMiddlewareVersion, \* app.ts: let globalMiddlewareVersion
    middlewareCache,         \* app.ts: WeakMap<Route, {version, chain}>
    scopes,                  \* the group routers whose callbacks are running, outermost first
    builders,                \* per route: the builder its registration returned
    reqs,                    \* per request id: the state of its handleRequest call
    options,                 \* createApp(options): the collaborators configured
    heap                     \* the ctx.locals objects alive, by object identity

vars == <<routes, middlewares, namedRoutes, globalMiddlewareVersion,
          middlewareCache, scopes, builders, reqs, options, heap>>

-----------------------------------------------------------------------------
(* Bounds of the model *)

MaxRoutes == 2
MaxUse == 2
MaxDepth == 2

-----------------------------------------------------------------------------
(* Characters and strings *)

Letters == {"a", "b", "g", "i", "n", "p", "u", "x"}
Digits == {"1", "2"}

IsIdentStart(c) == c \in Letters \/ c = "_"
IsIdentChar(c) == IsIdentStart(c) \/ c \in Digits

Undefined == [def |-> FALSE, v |-> <<>>]
Some(s) == [def |-> TRUE, v |-> s]

EmptyFn == [x \in {} |-> x]

StartsWithSlash(s) == Len(s) >= 1 /\ s[1] = "/"
EndsWithSlash(s) == Len(s) >= 1 /\ s[Len(s)] = "/"

-----------------------------------------------------------------------------
(* router.ts: compilePath *)

RECURSIVE IdentEnd(_, _)
\* last index of the run [a-zA-Z0-9_]* that continues the identifier ending at i
IdentEnd(p, i) ==
    IF i + 1 <= Len(p) /\ IsIdentChar(p[i + 1]) THEN IdentEnd(p, i + 1) ELSE i

RECURSIVE CompileFrom(_, _, _, _, _)
\* the global replace of /\/:([a-zA-Z_][a-zA-Z0-9_]*)(\\\?)?/ scanning from i;
\* every other character stays a (regex-escaped) literal
CompileFrom(p, i, toks, names, opts) ==
    IF i > Len(p)
    THEN [ok |-> TRUE,
          tokens |-> Append(toks, [t |-> "tslash", c |-> "/"]),
          paramNames |-> names,
          optionalParams |-> opts]
    ELSE IF p[i] = "/" /\ i + 2 <= Len(p) /\ p[i + 1] = ":" /\ IsIdentStart(p[i + 2])
    THEN LET e == IdentEnd(p, i + 2)
             name == SubSeq(p, i + 2, e)
             isOptional == e + 1 <= Len(p) /\ p[e + 1] = "?"
         IN  IF \E k \in 1..Len(names) : names[k] = name
             THEN [ok |-> FALSE, tokens |-> <<>>, paramNames |-> <<>>,
                   optionalParams |-> <<>>]
             ELSE IF isOptional
             THEN CompileFrom(p, e + 2, Append(toks, [t |-> "opt", c |-> "/"]),
                              Append(names, name), Append(opts, name))
             ELSE CompileFrom(p, e + 1, Append(toks, [t |-> "req", c |-> "/"]),
                              Append(names, name), opts)
    ELSE CompileFrom(p, i + 1, Append(toks, [t |-> "lit", c |-> p[i]]), names, opts)

RECURSIVE CompileFromNoDuplicateCheck(_, _, _, _, _)
\* CompileFrom without the paramNames.includes(paramName) check
CompileFromNoDuplicateCheck(p, i, toks, names, opts) ==
    IF i > Len(p)
    THEN [ok |-> TRUE,
          tokens |-> Append(toks, [t |-> "tslash", c |-> "/"]),
          paramNames |-> names,
          optionalParams |-> opts]
    ELSE IF p[i] = "/" /\ i + 2 <= Len(p) /\ p[i + 1] = ":" /\ IsIdentStart(p[i + 2])
    THEN LET e == IdentEnd(p, i + 2)
             name == SubSeq(p, i + 2, e)
             isOptional == e + 1 <= Len(p) /\ p[e + 1] = "?"
         IN  IF isOptional
             THEN CompileFromNoDuplicateCheck(p, e + 2,
                      Append(toks, [t |-> "opt", c |-> "/"]),
                      Append(names, name), Append(opts, name))
             ELSE CompileFromNoDuplicateCheck(p, e + 1,
                      Append(toks, [t |-> "req", c |-> "/"]),
                      Append(names, name), opts)
    ELSE CompileFromNoDuplicateCheck(p, i + 1,
             Append(toks, [t |-> "lit", c |-> p[i]]), names, opts)

compilePathNoDuplicateCheck(path) ==
    CompileFromNoDuplicateCheck(path, 1, <<>>, <<>>, <<>>)

compilePath(path) == CompileFrom(path, 1, <<>>, <<>>, <<>>)

-----------------------------------------------------------------------------
(* RegExp matching of a compiled pattern, ^...$ with backtracking in the   *)
(* engine's order: greedy [^/]+, the optional group tried before skipping  *)

NoMatch == [ok |-> FALSE, caps |-> <<>>]

RECURSIVE RunLen(_, _)
\* length of the longest run of non-slash characters starting at s
RunLen(p, s) == IF s <= Len(p) /\ p[s] # "/" THEN 1 + RunLen(p, s + 1) ELSE 0

RECURSIVE MatchFrom(_, _, _, _), TryLen(_, _, _, _, _)
TryLen(toks, ti, p, s, n) ==
    IF n < 1 THEN NoMatch
    ELSE LET r == MatchFrom(toks, ti + 1, p, s + n)
         IN  IF r.ok
             THEN [ok |-> TRUE, caps |-> <<Some(SubSeq(p, s, s + n - 1))>> \o r.caps]
             ELSE TryLen(toks, ti, p, s, n - 1)

MatchFrom(toks, ti, p, j) ==
    IF ti > Len(toks)
    THEN IF j = Len(p) + 1 THEN [ok |-> TRUE, caps |-> <<>>] ELSE NoMatch
    ELSE LET t == toks[ti]
             group == IF j <= Len(p) /\ p[j] = "/"
                      THEN TryLen(toks, ti, p, j + 1, RunLen(p, j + 1))
                      ELSE NoMatch
         IN  CASE t.t = "lit" ->
                    IF j <= Len(p) /\ p[j] = t.c
                    THEN MatchFrom(toks, ti + 1, p, j + 1)
                    ELSE NoMatch
               [] t.t = "req" -> group
               [] t.t = "opt" ->
                    IF group.ok THEN group
                    ELSE LET r == MatchFrom(toks, ti + 1, p, j)
                         IN  IF r.ok
                             THEN [ok |-> TRUE, caps |-> <<Undefined>> \o r.caps]
                             ELSE NoMatch
               [] t.t = "tslash" ->
                    LET r == IF j <= Len(p) /\ p[j] = "/"
                             THEN MatchFrom(toks, ti + 1, p, j + 1)
                             ELSE NoMatch
                    IN  IF r.ok THEN r ELSE MatchFrom(toks, ti + 1, p, j)

\* path.match(route.pattern)
PatternMatch(route, path) == MatchFrom(route.pattern, 1, path, 1)

\* route.pattern.test(path)
PatternTest(route, path) == PatternMatch(route, path).ok

\* extractParams that gives an omitted optional parameter the value ""
extractParamsEmptyString(path, route) ==
    LET m == PatternMatch(route, path)
    IN  IF ~m.ok THEN EmptyFn
        ELSE [nm \in {route.paramNames[i] : i \in 1..Len(route.paramNames)} |->
                LET i == CHOOSE i \in 1..Len(route.paramNames) :
                            route.paramNames[i] = nm
                IN  IF m.caps[i].def THEN m.caps[i].v ELSE <<>>]

\* router.ts: extractParams; a capture that is undefined or "" sets no key
extractParams(path, route) ==
    LET m == PatternMatch(route, path)
    IN  IF ~m.ok THEN EmptyFn
        ELSE LET present == {i \in 1..Len(route.paramNames) :
                                m.caps[i].def /\ m.caps[i].v # <<>>}
             IN  [nm \in {route.paramNames[i] : i \in present} |->
                    m.caps[CHOOSE i \in present : route.paramNames[i] = nm].v]

-----------------------------------------------------------------------------
(* Constraint rules: the RegExp objects stored in route.constraints *)

\* builder.ts: whereNumber /^\d+$/, whereAlpha /^[a-zA-Z]+$/,
\* whereIn new RegExp(`^(${escaped.join("|")})$`)
RuleNumber == [kind |-> "number", vals |-> {}]
RuleAlpha == [kind |-> "alpha", vals |-> {}]
RuleIn(values) == [kind |-> "in", vals |-> values]
\* where(param, pattern) with a RegExp or a string the caller wrote: one or
\* more characters of a class, /^[c]+$/ when anchored and /[c]+/ when not
RuleRegExp(class, anchored) ==
    [kind |-> IF anchored THEN "full" ELSE "search", vals |-> class]

\* a RegExp the caller wrote with the g flag, /^[c]+$/g or /[c]+/g: test()
\* starts at lastIndex and moves it
RuleGlobal(class, anchored) ==
    [kind |-> "global", vals |-> class, anchored |-> anchored, lastIndex |-> 0]

\* the match a g-flagged rule finds in value from its lastIndex on: none for
\* an anchored rule unless lastIndex is 0, else the first run of the class
ExecGlobal(rule, value) ==
    IF rule.anchored
    THEN IF /\ rule.lastIndex = 0
            /\ Len(value) >= 1
            /\ \A k \in 1..Len(value) : value[k] \in rule.vals
         THEN [ok |-> TRUE, lastIndex |-> Len(value)]
         ELSE [ok |-> FALSE, lastIndex |-> 0]
    ELSE LET starts == {k \in (rule.lastIndex + 1)..Len(value) :
                           value[k] \in rule.vals}
         IN  IF starts = {} THEN [ok |-> FALSE, lastIndex |-> 0]
             ELSE LET first == CHOOSE k \in starts : \A j \in starts : k <= j
                      last == CHOOSE e \in first..Len(value) :
                                 /\ \A j \in first..e : value[j] \in rule.vals
                                 /\ e = Len(value) \/ value[e + 1] \notin rule.vals
                  IN  [ok |-> TRUE, lastIndex |-> last]

\* the rule object after pattern.test(value): only a g flag leaves a trace
Tested(rule, value) ==
    IF rule.kind = "global"
    THEN [rule EXCEPT !.lastIndex = ExecGlobal(rule, value).lastIndex]
    ELSE rule

\* pattern.test(value)
RuleTest(rule, value) ==
    CASE rule.kind = "number" ->
            Len(value) >= 1 /\ \A k \in 1..Len(value) : value[k] \in Digits
      [] rule.kind = "alpha" ->
            Len(value) >= 1 /\ \A k \in 1..Len(value) : value[k] \in Letters
      [] rule.kind = "in" -> value \in rule.vals
      [] rule.kind = "full" ->
            Len(value) >= 1 /\ \A k \in 1..Len(value) : value[k] \in rule.vals
      [] rule.kind = "search" ->
            \E k \in 1..Len(value) : value[k] \in rule.vals
      [] rule.kind = "global" -> ExecGlobal(rule, value).ok
      [] rule.kind = "any" -> TRUE                          \* new RegExp("")
      [] rule.kind = "prefix" ->                            \* /^[c]+/
            Len(value) >= 1 /\ value[1] \in rule.vals
      [] rule.kind = "suffix" ->                            \* /[c]+$/
            Len(value) >= 1 /\ value[Len(value)] \in rule.vals

\* checkConstraints that rejects when a constrained parameter is absent
checkConstraintsRequirePresent(params, constraints) ==
    \A param \in DOMAIN constraints :
        /\ param \in DOMAIN params
        /\ RuleTest(constraints[param], params[param])

\* router.ts: checkConstraints
checkConstraints(params, constraints) ==
    \A param \in DOMAIN constraints :
        \/ param \notin DOMAIN params      \* value === undefined: continue
        \/ RuleTest(constraints[param], params[param])

RECURSIVE CheckedFrom(_, _, _)
\* the route after checkConstraints(params, route.constraints): the rules are
\* tested in the order of Object.entries, up to the first that fails
CheckedFrom(route, params, k) ==
    IF k > Len(route.constraintOrder) THEN route
    ELSE LET param == route.constraintOrder[k]
         IN  IF param \notin DOMAIN params
             THEN CheckedFrom(route, params, k + 1)
             ELSE LET pattern == route.constraints[param]
                      after == [route EXCEPT !.constraints[param] =
                                   Tested(pattern, params[param])]
                  IN  IF ~RuleTest(pattern, params[param]) THEN after
                      ELSE CheckedFrom(after, params, k + 1)

-----------------------------------------------------------------------------
(* router.ts: path utilities *)

normalizePrefix(prefix) ==
    LET lead == IF ~StartsWithSlash(prefix) THEN <<"/">> \o prefix ELSE prefix
    IN  IF EndsWithSlash(lead) /\ Len(lead) > 1
        THEN SubSeq(lead, 1, Len(lead) - 1)
        ELSE lead

joinPaths(prefix, path) ==
    LET normalizedPrefix == normalizePrefix(prefix)
        normalizedPath == IF ~StartsWithSlash(path) /\ path # <<>>
                          THEN <<"/">> \o path
                          ELSE path
    IN  IF normalizedPath = <<"/">>
        THEN normalizedPrefix
        ELSE normalizedPrefix \o normalizedPath

-----------------------------------------------------------------------------
(* routes/find.ts: the three lookups; a route is known by its index *)

NoRoute == [found |-> FALSE, idx |-> 0, params |-> EmptyFn]

RECURSIVE FindFromStop(_, _, _, _)
\* FindFrom with `return null` where the code has `continue`
FindFromStop(rs, method, path, i) ==
    IF i > Len(rs) THEN NoRoute
    ELSE IF PatternTest(rs[i], path) /\ rs[i].method = method
    THEN LET params == extractParams(path, rs[i])
         IN  IF ~checkConstraints(params, rs[i].constraints)
             THEN NoRoute
             ELSE [found |-> TRUE, idx |-> i, params |-> params]
    ELSE FindFromStop(rs, method, path, i + 1)

RECURSIVE FindFromLast(_, _, _, _)
\* FindFrom that lets a later qualifying entry override an earlier one
FindFromLast(rs, method, path, i) ==
    IF i > Len(rs) THEN NoRoute
    ELSE LET later == FindFromLast(rs, method, path, i + 1)
         IN  IF later.found THEN later
             ELSE IF /\ PatternTest(rs[i], path)
                     /\ rs[i].method = method
                     /\ checkConstraints(extractParams(path, rs[i]),
                                         rs[i].constraints)
             THEN [found |-> TRUE, idx |-> i,
                   params |-> extractParams(path, rs[i])]
             ELSE NoRoute

RECURSIVE FindFrom(_, _, _, _)
FindFrom(rs, method, path, i) ==
    IF i > Len(rs) THEN NoRoute
    ELSE IF PatternTest(rs[i], path) /\ rs[i].method = method
    THEN LET params == extractParams(path, rs[i])
         IN  IF ~checkConstraints(params, rs[i].constraints)
             THEN FindFrom(rs, method, path, i + 1)          \* continue
             ELSE [found |-> TRUE, idx |-> i, params |-> params]
    ELSE FindFrom(rs, method, path, i + 1)

findRoute(rs, method, path) == FindFrom(rs, method, path, 1)

RECURSIVE AfterFind(_, _, _, _)
\* the table after findRoute(rs, method, path)
AfterFind(rs, method, path, i) ==
    IF i > Len(rs) THEN rs
    ELSE IF PatternTest(rs[i], path) /\ rs[i].method = method
    THEN LET params == extractParams(path, rs[i])
             after == [rs EXCEPT ![i] = CheckedFrom(@, params, 1)]
         IN  IF ~checkConstraints(params, rs[i].constraints)
             THEN AfterFind(after, method, path, i + 1)
             ELSE after
    ELSE AfterFind(rs, method, path, i + 1)

RECURSIVE AfterHas(_, _, _)
\* the table after hasMatchingPath(rs, path): some() stops at the first hit
AfterHas(rs, path, i) ==
    IF i > Len(rs) THEN rs
    ELSE IF ~PatternTest(rs[i], path) THEN AfterHas(rs, path, i + 1)
    ELSE LET params == extractParams(path, rs[i])
             after == [rs EXCEPT ![i] = CheckedFrom(@, params, 1)]
         IN  IF checkConstraints(params, rs[i].constraints) THEN after
             ELSE AfterHas(after, path, i + 1)

RECURSIVE AfterAllowed(_, _, _)
\* the table after getAllowedMethods(rs, path)
AfterAllowed(rs, path, i) ==
    IF i > Len(rs) THEN rs
    ELSE IF ~PatternTest(rs[i], path) THEN AfterAllowed(rs, path, i + 1)
    ELSE AfterAllowed([rs EXCEPT ![i] =
                          CheckedFrom(@, extractParams(path, rs[i]), 1)],
                      path, i + 1)

\* hasMatchingPath without the constraint check
hasMatchingPathNoConstraints(rs, path) ==
    \E i \in 1..Len(rs) : PatternTest(rs[i], path)

hasMatchingPath(rs, path) ==
    \E i \in 1..Len(rs) :
        /\ PatternTest(rs[i], path)
        /\ checkConstraints(extractParams(path, rs[i]), rs[i].constraints)

\* the methods of HttpMethod in the order Array.prototype.sort gives strings
MethodOrder == <<"DELETE", "GET", "HEAD", "OPTIONS", "PATCH", "POST", "PUT">>

RECURSIVE SortMethods(_, _)
SortMethods(S, k) ==
    IF k > Len(MethodOrder) THEN <<>>
    ELSE (IF MethodOrder[k] \in S THEN <<MethodOrder[k]>> ELSE <<>>)
         \o SortMethods(S, k + 1)

\* getAllowedMethods without the constraint check
getAllowedMethodsNoConstraints(rs, path) ==
    SortMethods({rs[i].method : i \in {j \in 1..Len(rs) : PatternTest(rs[j], path)}},
                1)

getAllowedMethods(rs, path) ==
    LET methods == {rs[i].method : i \in
                      {j \in 1..Len(rs) :
                         /\ PatternTest(rs[j], path)
                         /\ checkConstraints(extractParams(path, rs[j]),
                                             rs[j].constraints)}}
    IN  SortMethods(methods, 1)

-----------------------------------------------------------------------------
(* handlers/head.ts *)

\* normalizeHeadMethod without the fall-back to the GET route
normalizeHeadMethodNoFallback(method, path, rs) == method

normalizeHeadMethod(method, path, rs) ==
    IF method # "HEAD" THEN method
    ELSE IF findRoute(rs, "HEAD", path).found THEN "HEAD"
    ELSE IF findRoute(AfterFind(rs, "HEAD", path, 1), "GET", path).found
    THEN "GET"
    ELSE "HEAD"

\* the table after normalizeHeadMethod(method, path, rs)
AfterNormalize(method, path, rs) ==
    IF method # "HEAD" THEN rs
    ELSE IF findRoute(rs, "HEAD", path).found
    THEN AfterFind(rs, "HEAD", path, 1)
    ELSE AfterFind(AfterFind(rs, "HEAD", path, 1), "GET", path, 1)

-----------------------------------------------------------------------------
(* app.ts: the middleware chain cache *)

\* the chain built when the cache misses
BuildChain(mws, route) == mws \o route.middleware

CacheHit(cache, version, i) == i \in DOMAIN cache /\ cache[i].version = version

\* getMiddlewareChain(route): the chain returned and the cache afterwards
getMiddlewareChain(cache, version, mws, rs, i) ==
    IF CacheHit(cache, version, i)
    THEN [chain |-> cache[i].chain, cache |-> cache]
    ELSE LET chain == BuildChain(mws, rs[i])
         IN  [chain |-> chain,
              cache |-> [k \in DOMAIN cache \cup {i} |->
                           IF k = i THEN [version |-> version, chain |-> chain]
                           ELSE cache[k]]]

-----------------------------------------------------------------------------
(* Handler results, failures and responses *)

Val(t, x) == [t |-> t, x |-> x]
NullValue == Val("null", <<>>)

NoAllow == [def |-> FALSE, v |-> <<>>]
NoResponse == [status |-> 0, ctype |-> "", body |-> NullValue, allow |-> NoAllow]

\* response.ts: toResponse
toResponse(result) ==
    CASE result.t = "response" -> result.x           \* already a Response
      [] result.t = "null" ->
            [status |-> 204, ctype |-> "", body |-> NullValue, allow |-> NoAllow]
      [] result.t \in {"str", "num"} ->
            [status |-> 200, ctype |-> "text/plain;charset=utf-8",
             body |-> result, allow |-> NoAllow]
      [] OTHER ->
            [status |-> 200, ctype |-> "application/json",
             body |-> result, allow |-> NoAllow]

\* handlers/head.ts: toHeadResponse
toHeadResponse(response) == [response EXCEPT !.body = NullValue]

JsonError(msg) == Val("obj", <<"error", msg>>)

\* what the configured collaborators return (opaque application code)
OnErrorValue(error) == Val("obj", <<"onError">> \o error.x)
OnNotFoundValue == Val("obj", <<"onNotFound">>)

\* handlers/notFound.ts: handleNotFound
handleNotFound(opts) ==
    IF opts.onNotFound
    THEN toResponse(OnNotFoundValue)
    ELSE [status |-> 404, ctype |-> "application/json",
          body |-> JsonError("Not found"), allow |-> NoAllow]

RECURSIVE JoinFrom(_, _)
JoinFrom(list, k) ==
    IF k > Len(list) THEN <<>>
    ELSE (IF k > 1 THEN <<", ">> ELSE <<>>) \o <<list[k]>> \o JoinFrom(list, k + 1)

\* allowedMethods.join(", "): the header text, "" for an empty list
Join(list) == JoinFrom(list, 1)

Header(text) == [def |-> TRUE, v |-> text]

\* what options.onMethodNotAllowed(ctx, allowedMethods) returns, by the kind of
\* collaborator configured (application code):
\*   plain   a 405 Response without an Allow header, the list in its body
\*   custom  a 405 Response with Allow: CUSTOM
\*   empty   a 405 Response with an Allow header whose value is ""
\*   object  a plain object holding the list
MethodNotAllowedKinds == {"plain", "custom", "empty", "object"}

OnMethodNotAllowedValue(kind, allowedMethods) ==
    CASE kind = "plain" ->
            Val("response", [status |-> 405, ctype |-> "application/json",
                             body |-> Val("obj", <<"allowed">> \o allowedMethods),
                             allow |-> NoAllow])
      [] kind = "custom" ->
            Val("response", [status |-> 405, ctype |-> "text/plain;charset=utf-8",
                             body |-> Val("str", <<"Method not allowed">>),
                             allow |-> Header(<<"CUSTOM">>)])
      [] kind = "empty" ->
            Val("response", [status |-> 405, ctype |-> "text/plain;charset=utf-8",
                             body |-> Val("str", <<"Method not allowed">>),
                             allow |-> Header(<<>>)])
      [] kind = "object" -> Val("obj", <<"allowed">> \o allowedMethods)

\* handleMethodNotAllowed without the Allow header it adds to the response of
\* a collaborator
handleMethodNotAllowedNoInject(path, rs, opts) ==
    LET allowedMethods == getAllowedMethods(rs, path)
    IN  IF opts.onMethodNotAllowed # "none"
        THEN toResponse(OnMethodNotAllowedValue(opts.onMethodNotAllowed,
                                                allowedMethods))
        ELSE [status |-> 405, ctype |-> "application/json",
              body |-> JsonError("Method not allowed"),
              allow |-> Header(Join(allowedMethods))]

\* handlers/methodNotAllowed.ts: handleMethodNotAllowed
handleMethodNotAllowed(path, rs, opts) ==
    LET allowedMethods == getAllowedMethods(rs, path)
    IN  IF opts.onMethodNotAllowed # "none"
        THEN LET response == toResponse(OnMethodNotAllowedValue(
                                 opts.onMethodNotAllowed, allowedMethods))
                 \* response.headers.get("Allow"): null when absent
                 allowHeader == response.allow
             IN  IF ~allowHeader.def \/ allowHeader.v = <<>>    \* !allowHeader
                 THEN [response EXCEPT !.allow = Header(Join(allowedMethods))]
                 ELSE response
        ELSE [status |-> 405, ctype |-> "application/json",
              body |-> JsonError("Method not allowed"),
              allow |-> Header(Join(allowedMethods))]

\* handlers/options.ts: handleOptions
handleOptions(path, rs, opts) ==
    IF hasMatchingPath(rs, path)
    THEN [status |-> 204, ctype |-> "", body |-> NullValue,
          allow |-> Header(Join(getAllowedMethods(AfterHas(rs, path, 1), path)))]
    ELSE handleNotFound(opts)

\* handlers/error.ts: handleError, the response it builds
handleError(error, opts) ==
    IF opts.onError
    THEN toResponse(OnErrorValue(error))
    ELSE [status |-> 500, ctype |-> "application/json",
          body |-> JsonError(IF error.t = "Error" THEN error.x[1]
                             ELSE "Internal server error"),
          allow |-> NoAllow]

-----------------------------------------------------------------------------
(* Application code: the handlers and middleware the model registers *)

\* handlers: return an object, return null, throw an Error, throw a bare string
HandlerKinds == {"ok", "null", "throwErr", "throwStr"}

HandlerResult(h) ==
    CASE h = "ok" -> [k |-> "ret", v |-> Val("obj", <<"handler">>)]
      [] h = "null" -> [k |-> "ret", v |-> NullValue]
      [] h = "throwErr" -> [k |-> "throw", v |-> Val("Error", <<"boom">>)]
      [] h = "throwStr" -> [k |-> "throw", v |-> Val("string", <<"oops">>)]

\* middleware, by what its body does around next():
\*   wrap       before-work; await next(); after-work; return the result
\*   transform  as wrap, but returns a value made from the result
\*   catch      try { return await next() } catch { return a recovery value }
\*   short      returns its own value and never calls next()
\*   throwB     throws before calling next()
\*   throwA     awaits next(), then throws
\*   twice      before-work; await next(); then as wrap: await next() again;
\*              after-work; return the second result ("tw2" is "tw" at its
\*              second await)
MwKind(m) ==
    CASE m \in {"w1", "w2", "tw2"} -> "wrap"
      [] m = "tw" -> "twice"
      [] m = "tf" -> "transform"
      [] m = "ct" -> "catch"
      [] m = "sc" -> "short"
      [] m = "tb" -> "throwB"
      [] m = "ta" -> "throwA"

CallsNext(m) == MwKind(m) \in {"wrap", "transform", "catch", "throwA", "twice"}

ShortValue(m) == Val("str", <<"short", m>>)
Transformed(m, v) == Val("obj", v.x \o <<m>>)
Recovered(m, e) == Val("obj", <<"recovered", m>> \o e.x)
MwError(m) == Val("Error", <<"mw", m>>)

-----------------------------------------------------------------------------
(* handlers/route.ts: executeRoute, one request's continuation chain *)

Ctl(k, v) == [k |-> k, v |-> v]

IdleReq ==
    [phase |-> "idle", method |-> "", path |-> <<>>, outcome |-> "none",
     route |-> 0, params |-> EmptyFn, chain |-> <<>>, index |-> 0,
     stack |-> <<>>, ctl |-> Ctl("none", NullValue), trace |-> <<>>,
     errCalls |-> <<>>, response |-> NoResponse, locals |-> 0]

\* NextMiddlewarePos taking the chain from its end
NextMiddlewarePosReversed(q) == Len(q.chain) - q.index

\* the middleware next() runs when the cursor is at index
NextMiddlewarePos(q) == q.index + 1

\* Advance as a loop over the chain: a middleware that returns without calling
\* next() is followed by the next one all the same
AdvanceFallsThrough(q, rs) ==
    IF q.index < Len(q.chain)
    THEN LET pos == NextMiddlewarePos(q)
             m == q.chain[pos]
             q1 == [q EXCEPT !.index = @ + 1,
                             !.trace = Append(@, <<"before", pos, m>>)]
         IN  CASE CallsNext(m) ->
                    [q1 EXCEPT !.stack = Append(@, [pos |-> pos, mw |-> m]),
                               !.ctl = Ctl("next", NullValue)]
               [] MwKind(m) = "short" ->
                    [q1 EXCEPT !.ctl = Ctl("next", NullValue)]
               [] MwKind(m) = "throwB" ->
                    [q1 EXCEPT !.ctl = Ctl("throw", MwError(m))]
    ELSE [q EXCEPT !.trace = Append(@, <<"handler", 0, rs[q.route].handler>>),
                   !.ctl = Ctl("handler", NullValue)]

\* Advance with a cursor of its own for every caller of next(): the call runs
\* the middleware after the caller's, wherever earlier calls have got to
AdvancePerCaller(q, rs) ==
    LET at == IF q.stack = <<>> THEN 0 ELSE q.stack[Len(q.stack)].pos
    IN  IF at < Len(q.chain)
        THEN LET pos == at + 1
                 m == q.chain[pos]
                 q1 == [q EXCEPT !.index = pos,
                                 !.trace = Append(@, <<"before", pos, m>>)]
             IN  CASE CallsNext(m) ->
                        [q1 EXCEPT !.stack = Append(@, [pos |-> pos, mw |-> m]),
                                   !.ctl = Ctl("next", NullValue)]
                   [] MwKind(m) = "short" ->
                        [q1 EXCEPT !.ctl = Ctl("ret", ShortValue(m))]
                   [] MwKind(m) = "throwB" ->
                        [q1 EXCEPT !.ctl = Ctl("throw", MwError(m))]
        ELSE [q EXCEPT !.trace = Append(@, <<"handler", 0, rs[q.route].handler>>),
                       !.ctl = Ctl("handler", NullValue)]

\* const next = async () => {...}: one call of next() by the running frame.
\* The middleware entered does its before-work and then either is about to
\* call next() itself, or returns or throws without calling it.
Advance(q, rs) ==
    IF q.index < Len(q.chain)
    THEN LET pos == NextMiddlewarePos(q)
             m == q.chain[pos]
             q1 == [q EXCEPT !.index = @ + 1,
                             !.trace = Append(@, <<"before", pos, m>>)]
         IN  CASE CallsNext(m) ->
                    [q1 EXCEPT !.stack = Append(@, [pos |-> pos, mw |-> m]),
                               !.ctl = Ctl("next", NullValue)]
               [] MwKind(m) = "short" ->
                    [q1 EXCEPT !.ctl = Ctl("ret", ShortValue(m))]
               [] MwKind(m) = "throwB" ->
                    [q1 EXCEPT !.ctl = Ctl("throw", MwError(m))]
    ELSE [q EXCEPT !.trace = Append(@, <<"handler", 0, rs[q.route].handler>>),
                   !.ctl = Ctl("handler", NullValue)]

\* Resume with a failure that bypasses the awaiting middleware: every frame
\* is dropped and the failure goes straight to handleRequest
ResumeFailureBypasses(q) ==
    LET f == q.stack[Len(q.stack)]
        kind == MwKind(f.mw)
        popped == [q EXCEPT !.stack = SubSeq(@, 1, Len(@) - 1)]
        after == [popped EXCEPT !.trace = Append(@, <<"after", f.pos, f.mw>>)]
    IN  IF q.ctl.k = "throw"
        THEN [q EXCEPT !.stack = <<>>]
        ELSE CASE kind = "transform" ->
                    [after EXCEPT !.ctl = Ctl("ret", Transformed(f.mw, q.ctl.v))]
               [] kind = "throwA" ->
                    [after EXCEPT !.ctl = Ctl("throw", MwError(f.mw))]
               [] OTHER -> after

\* the frame on top of the stack resumes from its await next()
Resume(q) ==
    LET f == q.stack[Len(q.stack)]
        kind == MwKind(f.mw)
        popped == [q EXCEPT !.stack = SubSeq(@, 1, Len(@) - 1)]
        after == [popped EXCEPT !.trace = Append(@, <<"after", f.pos, f.mw>>)]
    IN  IF q.ctl.k = "throw"
        THEN IF kind = "catch"
             THEN [after EXCEPT !.ctl = Ctl("ret", Recovered(f.mw, q.ctl.v))]
             ELSE popped
        ELSE CASE kind = "transform" ->
                    [after EXCEPT !.ctl = Ctl("ret", Transformed(f.mw, q.ctl.v))]
               [] kind = "throwA" ->
                    [after EXCEPT !.ctl = Ctl("throw", MwError(f.mw))]
               [] kind = "twice" ->             \* the frame calls next() again
                    [q EXCEPT !.stack[Len(q.stack)].mw = "tw2",
                              !.ctl = Ctl("next", NullValue)]
               [] OTHER -> after

\* options.rejects holds the configured collaborators whose call throws or
\* returns a promise that rejects
Rejects(opts, collaborator) ==
    /\ collaborator \in opts.rejects
    /\ CASE collaborator = "onNotFound" -> opts.onNotFound
         [] collaborator = "onMethodNotAllowed" -> opts.onMethodNotAllowed # "none"
         [] collaborator = "onError" -> opts.onError

\* handleOptions, handleMethodNotAllowed or handleNotFound awaits a
\* collaborator that fails: the promise handleRequest returns rejects
CollaboratorFails(kind, has, opts) ==
    CASE kind = "options" -> ~has /\ Rejects(opts, "onNotFound")
      [] kind = "405" -> Rejects(opts, "onMethodNotAllowed")
      [] OTHER -> Rejects(opts, "onNotFound")

\* Finish without the try/catch: the failure rejects the promise of app.fetch
FinishNoCatch(q, opts) ==
    IF q.ctl.k = "ret"
    THEN LET response == toResponse(q.ctl.v)
         IN  [q EXCEPT !.phase = "done", !.ctl = Ctl("none", NullValue),
                       !.response = IF q.method = "HEAD"
                                    THEN toHeadResponse(response)
                                    ELSE response]
    ELSE [q EXCEPT !.phase = "rejected"]

\* app.ts handleRequest: what follows await executeRoute(...) in the try/catch
Finish(q, opts) ==
    IF q.ctl.k = "ret"
    THEN LET response == toResponse(q.ctl.v)
         IN  [q EXCEPT !.phase = "done", !.ctl = Ctl("none", NullValue),
                       !.response = IF q.method = "HEAD"
                                    THEN toHeadResponse(response)
                                    ELSE response]
    ELSE [q EXCEPT !.phase = IF Rejects(opts, "onError") THEN "rejected"
                             ELSE "done",
                   !.ctl = Ctl("none", NullValue),
                   !.errCalls = IF opts.onError
                                THEN Append(@, [error |-> q.ctl.v,
                                                params |-> q.params])
                                ELSE @,
                   !.response = IF Rejects(opts, "onError") THEN @
                                ELSE handleError(q.ctl.v, opts)]

-----------------------------------------------------------------------------
(* State after createApp(options) *)

Requests == {1, 2}

NoName == [def |-> FALSE, v |-> <<>>]

InitWith(opts) ==
    /\ routes = <<>>
    /\ middlewares = <<>>
    /\ namedRoutes = EmptyFn
    /\ globalMiddlewareVersion = 0
    /\ middlewareCache = EmptyFn
    /\ scopes = <<>>
    /\ builders = <<>>
    /\ reqs = [r \in Requests |-> IdleReq]
    /\ options = opts
    /\ heap = EmptyFn

\* the basePath option joined to the paths as it was written
BasePathAsWritten == options.basePath

\* app.ts: normalizedBasePath / basePath
BasePath ==
    LET normalizedBasePath == IF options.basePath # <<>>
                              THEN normalizePrefix(options.basePath)
                              ELSE <<>>
    IN  IF normalizedBasePath = <<"/">> THEN <<>> ELSE normalizedBasePath

-----------------------------------------------------------------------------
(* Registration *)

\* routes/group.ts: createGroupRouter
createGroupRouter(prefix, groupMiddleware, namePrefix) ==
    [prefix |-> prefix, middleware |-> groupMiddleware, namePrefix |-> namePrefix]

\* app.ts: addRoute, the entry it builds (ok = FALSE when compilePath throws)
addRoute(method, path, handler, groupMiddleware) ==
    LET fullPath == IF BasePath # <<>> THEN joinPaths(BasePath, path) ELSE path
        c == compilePath(fullPath)
    IN  [ok |-> c.ok,
         route |-> [method |-> method, path |-> fullPath, pattern |-> c.tokens,
                    paramNames |-> c.paramNames, handler |-> handler,
                    optionalParams |-> c.optionalParams,
                    middleware |-> groupMiddleware,
                    name |-> NoName, constraints |-> EmptyFn,
                    constraintOrder |-> <<>>]]

\* builder.ts: wrapBuilderWithNamePrefix; a builder is the route it captured and
\* the prefix its name() prepends ("" for the builder createRouteBuilder made)
wrapBuilderWithNamePrefix(builder, namePrefix) ==
    IF namePrefix = <<>> THEN builder
    ELSE [builder EXCEPT !.namePrefix = namePrefix]

\* the registration pushed the entry and returned builder b
\* Registered with routes.unshift in place of routes.push
RegisteredFirst(r, b) ==
    /\ r.ok
    /\ Len(routes) < MaxRoutes
    /\ routes' = <<r.route>> \o routes
    /\ builders' = Append(builders, b)
    /\ UNCHANGED <<middlewares, namedRoutes, globalMiddlewareVersion,
                   middlewareCache, scopes, reqs, options, heap>>

Registered(r, b) ==
    /\ r.ok
    /\ Len(routes) < MaxRoutes
    /\ routes' = Append(routes, r.route)
    /\ builders' = Append(builders, b)
    /\ UNCHANGED <<middlewares, namedRoutes, globalMiddlewareVersion,
                   middlewareCache, scopes, reqs, options, heap>>

\* app.get / app.post / ... (path, handler)
AppRoute(method, path, handler) ==
    Registered(addRoute(method, path, handler, <<>>),
               [namePrefix |-> <<>>, chained |-> FALSE])

\* app.get / app.post / ... throws: compilePath rejected the path before
\* routes.push
AppRouteThrows(method, path, handler) ==
    /\ ~addRoute(method, path, handler, <<>>).ok
    /\ UNCHANGED vars

\* the registration in the callback of app.group throws, and with it app.group
GroupWithThrows(opts, method, path, handler) ==
    /\ scopes = <<>>
    /\ LET router == createGroupRouter(opts.prefix, opts.middleware, opts.name)
       IN  ~addRoute(method, joinPaths(router.prefix, path), handler,
                     router.middleware).ok
    /\ UNCHANGED vars

\* app.group(opts, router => router.get(path, handler)) and the like: a group
\* whose callback registers one route and returns
GroupWith(opts, method, path, handler) ==
    /\ scopes = <<>>
    /\ LET router == createGroupRouter(opts.prefix, opts.middleware, opts.name)
           fullPath == joinPaths(router.prefix, path)
       IN  Registered(addRoute(method, fullPath, handler, router.middleware),
                      wrapBuilderWithNamePrefix(
                          [namePrefix |-> <<>>, chained |-> FALSE],
                          router.namePrefix))

\* GroupOpen with the inner group's middleware put before the outer group's
GroupOpenInnerFirst(opts) ==
    /\ Len(scopes) < MaxDepth
    /\ scopes' = Append(scopes,
          IF scopes = <<>>
          THEN createGroupRouter(opts.prefix, opts.middleware, opts.name)
          ELSE LET outer == scopes[Len(scopes)]
               IN  createGroupRouter(joinPaths(outer.prefix, opts.prefix),
                                     opts.middleware \o outer.middleware,
                                     outer.namePrefix \o opts.name))
    /\ UNCHANGED <<routes, middlewares, namedRoutes, globalMiddlewareVersion,
                   middlewareCache, builders, reqs, options, heap>>

\* app.group(opts, callback) or, inside a callback, router.group(opts, callback):
\* the group router is created and its callback starts running
GroupOpen(opts) ==
    /\ Len(scopes) < MaxDepth
    /\ scopes' = Append(scopes,
          IF scopes = <<>>
          THEN createGroupRouter(opts.prefix, opts.middleware, opts.name)
          ELSE LET outer == scopes[Len(scopes)]
               IN  createGroupRouter(joinPaths(outer.prefix, opts.prefix),
                                     outer.middleware \o opts.middleware,
                                     outer.namePrefix \o opts.name))
    /\ UNCHANGED <<routes, middlewares, namedRoutes, globalMiddlewareVersion,
                   middlewareCache, builders, reqs, options, heap>>

\* the innermost running callback returns
GroupClose ==
    /\ scopes # <<>>
    /\ scopes' = SubSeq(scopes, 1, Len(scopes) - 1)
    /\ UNCHANGED <<routes, middlewares, namedRoutes, globalMiddlewareVersion,
                   middlewareCache, builders, reqs, options, heap>>

\* router.get / router.post / ... (path, handler) in the innermost group
GroupRoute(method, path, handler) ==
    /\ scopes # <<>>
    /\ LET router == scopes[Len(scopes)]
           fullPath == joinPaths(router.prefix, path)
       IN  Registered(addRoute(method, fullPath, handler, router.middleware),
                      wrapBuilderWithNamePrefix(
                          [namePrefix |-> <<>>, chained |-> FALSE],
                          router.namePrefix))

-----------------------------------------------------------------------------
(* routes/builder.ts: the fluent builder of route i.  via = "reg" calls the  *)
(* builder the registration returned; via = "chain" calls the builder that  *)
(* an earlier name()/where*() call on it returned.                          *)

\* the prefix name() prepends on the builder reached via `via`
NamePrefixVia(i, via) == IF via = "reg" THEN builders[i].namePrefix ELSE <<>>

hasRoute(name) == name \in DOMAIN namedRoutes

\* app.getRoutes(): name (null when the route has none), method and path of
\* every entry, in table order
getRoutes(rs) ==
    [i \in 1..Len(rs) |->
        [name |-> IF rs[i].name.def THEN Val("str", rs[i].name.v) ELSE NullValue,
         method |-> rs[i].method,
         path |-> rs[i].path]]

CanCall(i, via) ==
    /\ i \in 1..Len(routes)
    /\ via \in {"reg", "chain"}
    /\ via = "chain" => builders[i].chained

\* Name without the namedRoutes.has(name) check
NameNoCheck(i, via, n) ==
    /\ CanCall(i, via)
    /\ LET name == NamePrefixVia(i, via) \o n
       IN  /\ routes' = [routes EXCEPT ![i].name = [def |-> TRUE, v |-> name]]
           /\ namedRoutes' = [k \in DOMAIN namedRoutes \cup {name} |->
                                IF k = name THEN i ELSE namedRoutes[k]]
    /\ builders' = [builders EXCEPT ![i].chained = TRUE]
    /\ UNCHANGED <<middlewares, globalMiddlewareVersion, middlewareCache,
                   scopes, reqs, options, heap>>

Name(i, via, n) ==
    /\ CanCall(i, via)
    /\ LET name == NamePrefixVia(i, via) \o n
       IN  /\ ~hasRoute(name)               \* else: throws, nothing changes
           /\ routes' = [routes EXCEPT ![i].name = [def |-> TRUE, v |-> name]]
           /\ namedRoutes' = [k \in DOMAIN namedRoutes \cup {name} |->
                                IF k = name THEN i ELSE namedRoutes[k]]
    /\ builders' = [builders EXCEPT ![i].chained = TRUE]
    /\ UNCHANGED <<middlewares, globalMiddlewareVersion, middlewareCache,
                   scopes, reqs, options, heap>>

\* name(n) when the name is taken: it throws before anything is assigned
NameThrows(i, via, n) ==
    /\ CanCall(i, via)
    /\ hasRoute(NamePrefixVia(i, via) \o n)
    /\ UNCHANGED vars

\* createRouteBuilder: addConstraint
\* constraintOrder is the order Object.entries lists the keys of
\* route.constraints in: the order they were first assigned
addConstraint(route, param, rule) ==
    [route EXCEPT !.constraints =
        [k \in DOMAIN route.constraints \cup {param} |->
            IF k = param THEN rule ELSE route.constraints[k]],
                  !.constraintOrder =
        IF param \in DOMAIN route.constraints THEN @ ELSE Append(@, param)]

\* Constrain on a builder that resolves its entry when it is called, to the
\* entry registered last, instead of holding the one it was created for
ConstrainLastRegistered(i, via, param, rule) ==
    /\ CanCall(i, via)
    /\ routes' = [routes EXCEPT ![Len(routes)] = addConstraint(@, param, rule)]
    /\ builders' = [builders EXCEPT ![i].chained = TRUE]
    /\ UNCHANGED <<middlewares, namedRoutes, globalMiddlewareVersion,
                   middlewareCache, scopes, reqs, options, heap>>

Constrain(i, via, param, rule) ==
    /\ CanCall(i, via)
    /\ routes' = [routes EXCEPT ![i] = addConstraint(@, param, rule)]
    /\ builders' = [builders EXCEPT ![i].chained = TRUE]
    /\ UNCHANGED <<middlewares, namedRoutes, globalMiddlewareVersion,
                   middlewareCache, scopes, reqs, options, heap>>

\* The source text of a pattern is a sequence of RegExp tokens: "^", "$", the
\* atoms "\\d" and "[a-z]", the quantifier "+", and the openers "[" and "(?<"
\* that nothing closes.
AtomClass(tok) == IF tok = "\\d" THEN Digits ELSE Letters

\* new RegExp(source) for the sources written with these tokens: the empty
\* source, and an optional "^", one atom, "+", an optional "$", compile; a
\* quantifier with nothing to repeat, an unterminated class or an unterminated
\* group name is a SyntaxError
NewRegExp(source) ==
    LET fromStart == source # <<>> /\ source[1] = "^"
        toEnd == source # <<>> /\ source[Len(source)] = "$"
        body == SubSeq(source, IF fromStart THEN 2 ELSE 1,
                       IF toEnd THEN Len(source) - 1 ELSE Len(source))
    IN  IF source = <<>>
        THEN [ok |-> TRUE, regexp |-> [kind |-> "any", vals |-> {}]]
        ELSE IF Len(body) = 2 /\ body[1] \in {"\\d", "[a-z]"} /\ body[2] = "+"
        THEN [ok |-> TRUE,
              regexp |-> [kind |-> CASE fromStart /\ toEnd -> "full"
                                     [] fromStart -> "prefix"
                                     [] toEnd -> "suffix"
                                     [] OTHER -> "search",
                          vals |-> AtomClass(body[1])]]
        ELSE [ok |-> FALSE, regexp |-> RuleNumber]

\* compilePattern that returns a rule for every source: what does not compile
\* is kept as it is until a request tests it
compilePatternDeferred(pattern, param) ==
    IF NewRegExp(pattern).ok
    THEN [ok |-> TRUE, regexp |-> NewRegExp(pattern).regexp, param |-> <<>>]
    ELSE [ok |-> TRUE, regexp |-> [kind |-> "uncompiled", vals |-> {}],
          param |-> <<>>]

\* builder.ts: compilePattern; on failure the error names the parameter
compilePattern(pattern, param) ==
    IF NewRegExp(pattern).ok
    THEN [ok |-> TRUE, regexp |-> NewRegExp(pattern).regexp, param |-> <<>>]
    ELSE [ok |-> FALSE, regexp |-> RuleNumber, param |-> param]

\* where(param, pattern), the regex it stores: a string pattern goes through
\* compilePattern, a RegExp is taken as it is; an empty string is "no pattern"
WhereRegex(param, pattern) ==
    IF pattern.type = "string"
    THEN IF pattern.source = <<>>                         \* !pattern
         THEN [ok |-> FALSE, regexp |-> RuleNumber, param |-> param]
         ELSE compilePattern(pattern.source, param)
    ELSE [ok |-> TRUE, regexp |-> pattern.regexp, param |-> <<>>]

Where(i, via, param, pattern) ==
    /\ WhereRegex(param, pattern).ok
    /\ Constrain(i, via, param, WhereRegex(param, pattern).regexp)

RECURSIVE WhereEach(_, _, _)
\* where({ param: pattern, ... }): the entries from the k-th on, each compiled
\* and stored in turn; the first that does not compile throws and the rules
\* stored before it stay
WhereEach(route, entries, k) ==
    IF k > Len(entries) THEN [ok |-> TRUE, route |-> route, param |-> <<>>]
    ELSE LET pat == entries[k].pattern
             c == IF pat.type = "string"
                  THEN compilePattern(pat.source, entries[k].param)
                  ELSE [ok |-> TRUE, regexp |-> pat.regexp, param |-> <<>>]
         IN  IF c.ok
             THEN WhereEach(addConstraint(route, entries[k].param, c.regexp),
                            entries, k + 1)
             ELSE [ok |-> FALSE, route |-> route, param |-> c.param]

WhereAll(i, via, entries) ==
    /\ CanCall(i, via)
    /\ LET done == WhereEach(routes[i], entries, 1)
       IN  /\ routes' = [routes EXCEPT ![i] = done.route]
           /\ builders' = IF done.ok THEN [builders EXCEPT ![i].chained = TRUE]
                          ELSE builders
    /\ UNCHANGED <<middlewares, namedRoutes, globalMiddlewareVersion,
                   middlewareCache, scopes, reqs, options, heap>>

\* where(param, pattern) throws: nothing is stored
WhereThrows(i, via, param, pattern) ==
    /\ CanCall(i, via)
    /\ ~WhereRegex(param, pattern).ok
    /\ UNCHANGED vars

\* whereIn(param, []) throws
WhereInThrows(i, via, param) ==
    /\ CanCall(i, via)
    /\ UNCHANGED vars

WhereNumber(i, via, param) == Constrain(i, via, param, RuleNumber)
WhereAlpha(i, via, param) == Constrain(i, via, param, RuleAlpha)
WhereIn(i, via, param, values) ==
    /\ values # {}                           \* else: throws, nothing changes
    /\ Constrain(i, via, param, RuleIn(values))

-----------------------------------------------------------------------------
(* app.use *)

\* use() that leaves the version counter alone
\* Use when the chain a request runs is the middlewares array itself and not
\* a copy of it: the push shows in the chains of the requests in flight
UseSharedChain(m) ==
    /\ Len(middlewares) < MaxUse
    /\ middlewares' = Append(middlewares, m)
    /\ globalMiddlewareVersion' = globalMiddlewareVersion + 1
    /\ reqs' = [r \in DOMAIN reqs |->
                  IF reqs[r].phase = "run"
                  THEN [reqs[r] EXCEPT !.chain = Append(@, m)]
                  ELSE reqs[r]]
    /\ UNCHANGED <<routes, namedRoutes, middlewareCache, scopes, builders,
                   options, heap>>

UseNoBump(m) ==
    /\ Len(middlewares) < MaxUse
    /\ middlewares' = Append(middlewares, m)
    /\ UNCHANGED <<routes, namedRoutes, globalMiddlewareVersion,
                   middlewareCache, scopes, builders, reqs, options, heap>>

Use(m) ==
    /\ Len(middlewares) < MaxUse
    /\ middlewares' = Append(middlewares, m)
    /\ globalMiddlewareVersion' = globalMiddlewareVersion + 1
    /\ UNCHANGED <<routes, namedRoutes, middlewareCache, scopes, builders,
                   reqs, options, heap>>

-----------------------------------------------------------------------------
(* app.fetch = handleRequest *)

\* Outcome without the OPTIONS branch: OPTIONS is looked up like any method
OutcomeNoOptions(rs, method, path) ==
    IF findRoute(rs, normalizeHeadMethod(method, path, rs), path).found
    THEN "exec"
    ELSE IF hasMatchingPath(rs, path) THEN "405"
    ELSE "404"

\* one locals object kept for all requests instead of a new one each time
PooledLocals(h) == 1

\* the identity of the object the literal {} creates: one that is not alive
NewLocals(h) ==
    CHOOSE id \in 1..(Cardinality(DOMAIN h) + 1) :
        /\ id \notin DOMAIN h
        /\ \A k \in 1..(id - 1) : k \in DOMAIN h

\* locals: {} in the context handleRequest builds: the object starts empty
Allocate(h, id) == [k \in DOMAIN h \cup {id} |-> IF k = id THEN EmptyFn ELSE h[k]]

\* the objects still referenced by the context of some request
Collect(h, rq) ==
    [id \in {k \in DOMAIN h : \E r \in DOMAIN rq : rq[r].locals = k} |-> h[id]]

\* the lookups handleRequest makes for a request that is not OPTIONS, one after
\* the other on the table the one before has left: normalizeHeadMethod, then
\* findRoute on atFind, then, when that finds nothing, hasMatchingPath on
\* atHas; atNotAllowed is the table handleMethodNotAllowed receives
LookupsFrom(atHas, match, path) ==
    [match |-> match,
     atHas |-> atHas,
     has |-> hasMatchingPath(atHas, path),
     atNotAllowed |-> AfterHas(atHas, path, 1)]

LookupsAt(atFind, actualMethod, path) ==
    LookupsFrom(AfterFind(atFind, actualMethod, path, 1),
                findRoute(atFind, actualMethod, path), path)

Lookups(rs, method, path) ==
    LookupsAt(AfterNormalize(method, path, rs),
              normalizeHeadMethod(method, path, rs), path)

OutcomeOf(look) ==
    IF look.match.found THEN "exec"
    ELSE IF look.has THEN "405"
    ELSE "404"

\* the branch handleRequest takes
Outcome(rs, method, path) ==
    IF method = "OPTIONS" THEN "options"
    ELSE OutcomeOf(Lookups(rs, method, path))

\* the table after handleOptions: atAllowed is what hasMatchingPath left
AfterOptions(has, atAllowed, path) ==
    IF has THEN AfterAllowed(atAllowed, path, 1) ELSE atAllowed

\* the table when handleRequest has taken the branch kind and the response
\* is built
AfterRequest(rs, look, path, kind) ==
    CASE kind = "options" ->
            AfterOptions(hasMatchingPath(rs, path), AfterHas(rs, path, 1), path)
      [] kind = "exec" -> look.atHas
      [] kind = "405" -> AfterAllowed(look.atNotAllowed, path, 1)
      [] OTHER -> look.atNotAllowed

\* Unmatched with the global middleware run before the route lookup
UnmatchedAfterMiddleware(q0, atNotAllowed) ==
    [q0 EXCEPT !.phase = "done",
               !.trace = [i \in 1..Len(middlewares) |->
                            <<"before", i, middlewares[i]>>],
               !.response =
                  CASE q0.outcome = "options" ->
                         handleOptions(q0.path, routes, options)
                    [] q0.outcome = "405" ->
                         handleMethodNotAllowed(q0.path, atNotAllowed, options)
                    [] OTHER -> handleNotFound(options)]

\* handleRequest when it executes no route: the response is returned at once
Unmatched(q0, atNotAllowed) ==
    IF CollaboratorFails(q0.outcome, hasMatchingPath(routes, q0.path), options)
    THEN [q0 EXCEPT !.phase = "rejected"]
    ELSE [q0 EXCEPT !.phase = "done",
               !.response =
                  CASE q0.outcome = "options" ->
                         handleOptions(q0.path, routes, options)
                    [] q0.outcome = "405" ->
                         handleMethodNotAllowed(q0.path, atNotAllowed, options)
                    [] OTHER -> handleNotFound(options)]

\* handleRequest once the lookups look have settled the branch kind
Dispatch(r, method, path, kind, look) ==
    /\ LET q0 == [IdleReq EXCEPT !.method = method, !.path = path,
                                 !.outcome = kind]
       IN  IF kind = "exec"
           THEN LET got == getMiddlewareChain(middlewareCache,
                                 globalMiddlewareVersion, middlewares, routes,
                                 look.match.idx)
                    q1 == [q0 EXCEPT !.phase = "run", !.route = look.match.idx,
                                     !.params = look.match.params,
                                     !.chain = got.chain,
                                     !.locals = NewLocals(heap)]
                IN  /\ reqs' = [reqs EXCEPT ![r] = Advance(q1, routes)]
                    /\ middlewareCache' = got.cache
                    /\ heap' = Allocate(heap, NewLocals(heap))
           ELSE /\ reqs' = [reqs EXCEPT ![r] = Unmatched(q0, look.atNotAllowed)]
                /\ UNCHANGED <<middlewareCache, heap>>
    /\ routes' = AfterRequest(routes, look, path, kind)
    /\ UNCHANGED <<middlewares, namedRoutes, globalMiddlewareVersion,
                   scopes, builders, options>>

Fetch(r, method, path) ==
    /\ reqs[r].phase = "idle"
    /\ Dispatch(r, method, path, Outcome(routes, method, path),
                Lookups(routes, method, path))

ReqStep(r, q) ==
    /\ reqs' = [reqs EXCEPT ![r] = q]
    /\ UNCHANGED <<routes, middlewares, namedRoutes, globalMiddlewareVersion,
                   middlewareCache, scopes, builders, options, heap>>

\* the running middleware of request r calls next()
StepNext(r) ==
    /\ reqs[r].phase = "run"
    /\ reqs[r].ctl.k = "next"
    /\ ReqStep(r, Advance(reqs[r], routes))

\* the handler of request r completes: it returns or throws
StepHandler(r) ==
    /\ reqs[r].phase = "run"
    /\ reqs[r].ctl.k = "handler"
    /\ LET res == HandlerResult(routes[reqs[r].route].handler)
       IN  ReqStep(r, [reqs[r] EXCEPT !.ctl = Ctl(res.k, res.v)])

\* a result or failure reaches the middleware awaiting next()
StepResume(r) ==
    /\ reqs[r].phase = "run"
    /\ reqs[r].ctl.k \in {"ret", "throw"}
    /\ reqs[r].stack # <<>>
    /\ ReqStep(r, Resume(reqs[r]))

\* the result or failure of the outermost next() reaches handleRequest
StepFinish(r) ==
    /\ reqs[r].phase = "run"
    /\ reqs[r].ctl.k \in {"ret", "throw"}
    /\ reqs[r].stack = <<>>
    /\ ReqStep(r, Finish(reqs[r], options))

\* the promise app.fetch returned rejects and the request's context is dropped
Reject(r) ==
    /\ reqs[r].phase = "rejected"
    /\ reqs' = [reqs EXCEPT ![r] = IdleReq]
    /\ heap' = Collect(heap, reqs')
    /\ UNCHANGED <<routes, middlewares, namedRoutes, globalMiddlewareVersion,
                   middlewareCache, scopes, builders, options>>

\* the response is handed back and the request's context is dropped
Respond(r) ==
    /\ reqs[r].phase = "done"
    /\ reqs' = [reqs EXCEPT ![r] = IdleReq]
    /\ heap' = Collect(heap, reqs')
    /\ UNCHANGED <<routes, middlewares, namedRoutes, globalMiddlewareVersion,
                   middlewareCache, scopes, builders, options>>

\* ctx.locals[key] = value in the middleware or handler of request r, at any
\* point of its run
SetLocal(r, key, value) ==
    /\ reqs[r].phase = "run"
    /\ heap' = [heap EXCEPT ![reqs[r].locals] =
                   [k \in DOMAIN @ \cup {key} |-> IF k = key THEN value ELSE @[k]]]
    /\ UNCHANGED <<routes, middlewares, namedRoutes, globalMiddlewareVersion,
                   middlewareCache, scopes, builders, reqs, options>>

-----------------------------------------------------------------------------
(* app.ts: app.route(name, params), URL generation.  params is the object's *)
(* entries in iteration order; a value is a string or a number.             *)

StringValue(s) == [type |-> "string", s |-> s, n |-> 0]
NumberValue(n) == [type |-> "number", s |-> <<>>, n |-> n]

DigitChars == <<"0", "1", "2", "3", "4", "5", "6", "7", "8", "9">>

RECURSIVE Decimal(_)
Decimal(n) ==
    IF n < 10 THEN <<DigitChars[n + 1]>>
    ELSE Decimal(n \div 10) \o <<DigitChars[(n % 10) + 1]>>

\* String(value)
String(value) == IF value.type = "number" THEN Decimal(value.n) ELSE value.s

\* carriage-return, line-feed and NUL, each one character
ControlChars == {"CR", "LF", "NUL"}

\* strValue.includes("\r") || strValue.includes("\n") || strValue.includes("\0")
HasControlChar(str) == \E k \in 1..Len(str) : str[k] \in ControlChars

AlphaNumerics == Letters \cup {DigitChars[k] : k \in 1..Len(DigitChars)}

\* the %XX form of a character's UTF-8 byte
PercentEncoded(c) ==
    CASE c = " " -> <<"%", "2", "0">>
      [] c = "/" -> <<"%", "2", "F">>
      [] c = ":" -> <<"%", "3", "A">>
      [] c = "?" -> <<"%", "3", "F">>
      [] c = "%" -> <<"%", "2", "5">>
      [] c = "&" -> <<"%", "2", "6">>
      [] c = "=" -> <<"%", "3", "D">>
      [] c = "+" -> <<"%", "2", "B">>
      [] c = "LF" -> <<"%", "0", "A">>
      [] c = "CR" -> <<"%", "0", "D">>
      [] c = "NUL" -> <<"%", "0", "0">>

RECURSIVE EncodeFrom(_, _, _, _)
\* the characters of str from the k-th on: those in keep stay, a space becomes
\* "+" when spacePlus, the others are escaped
EncodeFrom(str, k, keep, spacePlus) ==
    IF k > Len(str) THEN <<>>
    ELSE (IF str[k] \in keep THEN <<str[k]>>
          ELSE IF str[k] = " " /\ spacePlus THEN <<"+">>
          ELSE PercentEncoded(str[k]))
         \o EncodeFrom(str, k + 1, keep, spacePlus)

\* encodeURIComponent: everything but A-Z a-z 0-9 - _ . ! ~ * ' ( ) is escaped
encodeURIComponent(str) ==
    EncodeFrom(str, 1,
               AlphaNumerics \cup {"-", "_", ".", "!", "~", "*", "'", "(", ")"},
               FALSE)

\* URLSearchParams serialisation: A-Z a-z 0-9 * - . _ stay, space becomes "+",
\* the rest is escaped
FormEncode(str) ==
    EncodeFrom(str, 1, AlphaNumerics \cup {"*", "-", ".", "_"}, TRUE)

HasKey(params, key) == \E k \in 1..Len(params) : params[k].key = key

\* params?.[paramName]
ValueOf(params, key) ==
    params[CHOOSE k \in 1..Len(params) : params[k].key = key].value

StartsAt(str, j, pat) ==
    /\ j >= 1
    /\ j + Len(pat) - 1 <= Len(str)
    /\ SubSeq(str, j, j + Len(pat) - 1) = pat

\* index of the first occurrence of pat in str, 0 when there is none
IndexOf(str, pat) ==
    IF \E j \in 1..Len(str) : StartsAt(str, j, pat)
    THEN CHOOSE j \in 1..Len(str) :
            /\ StartsAt(str, j, pat)
            /\ \A m \in 1..(j - 1) : ~StartsAt(str, m, pat)
    ELSE 0

\* url.replace(new RegExp(`:${paramName}\\??`), replacement): the first
\* ":paramName", with a "?" that follows it, becomes the replacement
ReplaceParam(url, paramName, replacement) ==
    LET pat == <<":">> \o paramName
        j == IndexOf(url, pat)
        end == j + Len(pat) - 1
        stop == IF end + 1 <= Len(url) /\ url[end + 1] = "?" THEN end + 1 ELSE end
    IN  IF j = 0 THEN url
        ELSE SubSeq(url, 1, j - 1) \o replacement \o SubSeq(url, stop + 1, Len(url))

\* url.replace(new RegExp(`/:${paramName}\\?`), "")
RemoveOptional(url, paramName) ==
    LET pat == <<"/", ":">> \o paramName \o <<"?">>
        j == IndexOf(url, pat)
    IN  IF j = 0 THEN url
        ELSE SubSeq(url, 1, j - 1) \o SubSeq(url, j + Len(pat), Len(url))

RouteError(kind, arg) == [ok |-> FALSE, url |-> <<>>, kind |-> kind, arg |-> arg]
RouteUrl(url) == [ok |-> TRUE, url |-> url, kind |-> "", arg |-> <<>>]

RECURSIVE ReplacePathParams(_, _, _, _)
\* the loop over route.paramNames, from the k-th name on
ReplacePathParams(route, params, url, k) ==
    IF k > Len(route.paramNames) THEN RouteUrl(url)
    ELSE LET paramName == route.paramNames[k]
             isOptional == \E m \in 1..Len(route.optionalParams) :
                              route.optionalParams[m] = paramName
         IN  IF HasKey(params, paramName)
             THEN ReplacePathParams(route, params,
                      ReplaceParam(url, paramName,
                          encodeURIComponent(String(ValueOf(params, paramName)))),
                      k + 1)
             ELSE IF isOptional
             THEN ReplacePathParams(route, params,
                                    RemoveOptional(url, paramName), k + 1)
             ELSE RouteError("Missing required param", paramName)

RECURSIVE QueryString(_, _, _, _)
\* new URLSearchParams(queryParams).toString() for the entries of params, from
\* the k-th on, whose key is not a path parameter that was used
QueryString(route, params, k, first) ==
    IF k > Len(params) THEN <<>>
    ELSE IF \E m \in 1..Len(route.paramNames) : route.paramNames[m] = params[k].key
    THEN QueryString(route, params, k + 1, first)
    ELSE (IF first THEN <<>> ELSE <<"&">>)
         \o FormEncode(params[k].key) \o <<"=">>
         \o FormEncode(String(params[k].value))
         \o QueryString(route, params, k + 1, FALSE)

\* app.route after the lookup and the control-character check
GenerateUrl(route, params) ==
    LET replaced == ReplacePathParams(route, params, route.path, 1)
        qs == QueryString(route, params, 1, TRUE)
    IN  IF ~replaced.ok THEN replaced
        ELSE IF qs # <<>> THEN RouteUrl(replaced.url \o <<"?">> \o qs)
        ELSE replaced

\* app.route without the check of the values for control characters
routeNoControlCheck(name, params) ==
    IF name \notin DOMAIN namedRoutes THEN RouteError("not found", name)
    ELSE GenerateUrl(routes[namedRoutes[name]], params)

\* app.route(name, params): the URL, or the error it throws
Route(name, params) ==
    IF name \notin DOMAIN namedRoutes THEN RouteError("not found", name)
    ELSE IF \E k \in 1..Len(params) : HasControlChar(String(params[k].value))
    THEN RouteError("Invalid character in parameter",
                    params[CHOOSE k \in 1..Len(params) :
                              /\ HasControlChar(String(params[k].value))
                              /\ \A m \in 1..(k - 1) :
                                    ~HasControlChar(String(params[m].value))].key)
    ELSE GenerateUrl(routes[namedRoutes[name]], params)

\* new URL(request.url).pathname of a generated URL: the text before "?"
PathnameOf(url) ==
    LET q == IndexOf(url, <<"?">>)
    IN  IF q = 0 THEN url ELSE SubSeq(url, 1, q - 1)

\* a client requests the URL that app.route(name, params) returned
FetchGenerated(r, name, params) ==
    /\ Route(name, params).ok
    /\ Fetch(r, "GET", PathnameOf(Route(name, params).url))

\* app.route(name, params) throws
RouteThrows(name, params) ==
    /\ ~Route(name, params).ok
    /\ UNCHANGED vars

-----------------------------------------------------------------------------
(* The inputs application code and clients supply *)

DefaultOptions ==
    [basePath |-> <<>>, onError |-> FALSE, onNotFound |-> FALSE,
     onMethodNotAllowed |-> "none", rejects |-> {}]

\* "/u", "/u/:i", "/u/:i?", "/u/x"
PathU == <<"/", "u">>
PathUI == <<"/", "u", "/", ":", "i">>
PathUIOpt == <<"/", "u", "/", ":", "i", "?">>
PathUX == <<"/", "u", "/", "x">>

ParamI == <<"i">>

TableMethods == {"GET", "POST"}
TablePaths == {PathUX, PathUI, PathUIOpt}
RequestMethods == {"GET", "POST", "HEAD", "OPTIONS"}
RequestPaths == {PathU, PathUX, <<"/", "u", "/", "1">>}

-----------------------------------------------------------------------------
(* Spec: routes registered on the app, constrained, and requests dispatched *)

Init == InitWith(DefaultOptions)

Next ==
    \/ \E m \in TableMethods, p \in TablePaths : AppRoute(m, p, "ok")
    \/ \E i \in 1..Len(routes) : WhereNumber(i, "reg", ParamI)
    \/ \E m \in RequestMethods, p \in RequestPaths : Fetch(1, m, p)
    \/ StepHandler(1)
    \/ StepFinish(1)
    \/ Respond(1)

Spec == Init /\ [][Next]_vars

-----------------------------------------------------------------------------
(* Lookup claims, checked under Spec *)

\* entry i matches path p: its pattern and its constraints
MatchesPath(i, p) ==
    /\ PatternTest(routes[i], p)
    /\ checkConstraints(extractParams(p, routes[i]), routes[i].constraints)

\* entry i qualifies for the request (m, p)
Qualifies(i, m, p) == MatchesPath(i, p) /\ routes[i].method = m

Qualifying(m, p) == {i \in 1..Len(routes) : Qualifies(i, m, p)}

\* C1: findRoute(method, path) returns the earliest-registered entry whose
\* pattern matches, whose method is the requested one and whose constraints
\* pass; it returns null only when no entry qualifies.
C1_FirstQualifyingWins ==
    \A p \in RequestPaths :
        LET matching == {i \in 1..Len(routes) : MatchesPath(i, p)}
        IN  \A m \in RequestMethods :
                LET r == findRoute(routes, m, p)
                    qualifying == {i \in matching : routes[i].method = m}
                IN  IF qualifying = {}
                    THEN ~r.found
                    ELSE /\ r.found
                         /\ r.idx \in qualifying
                         /\ \A j \in qualifying : r.idx <= j
                         /\ r.params = extractParams(p, routes[r.idx])

\* a request was dispatched to entry 1 while entry 2 qualifies as well
C1_Witness ==
    /\ reqs[1].phase = "done"
    /\ reqs[1].outcome = "exec"
    /\ reqs[1].route = 1
    /\ Len(routes) >= 2
    /\ Qualifies(1, reqs[1].method, reqs[1].path)
    /\ Qualifies(2, reqs[1].method, reqs[1].path)

\* app.fetch was called: a request left the idle phase in this step
Dispatched(r) == reqs[r].phase = "idle" /\ reqs'[r].phase # "idle"

EffectiveMethod(m, p) ==
    IF m = "HEAD" /\ Qualifying("HEAD", p) = {} /\ Qualifying("GET", p) # {}
    THEN "GET"
    ELSE m

C8_ConstraintFallsThrough ==
    [][\A r \in Requests :
        LET m == reqs'[r].method
            p == reqs'[r].path
            q == reqs'[r]
            failing == {i \in 1..Len(routes) :
                          /\ routes[i].method = m
                          /\ PatternTest(routes[i], p)
                          /\ ~MatchesPath(i, p)}
        IN  (Dispatched(r) /\ failing # {}) =>
              IF Qualifying(m, p) # {}
              THEN /\ q.outcome = "exec"
                   /\ q.route \in Qualifying(m, p)
                   /\ \A j \in Qualifying(m, p) : q.route <= j
                   /\ q.route \notin failing
              ELSE /\ q.phase = "done"
                   /\ q.outcome \in {"404", "405"}
                   /\ q.outcome = "405" <=>
                         \E j \in 1..Len(routes) : MatchesPath(j, p)
                   /\ q.response.status = (IF q.outcome = "405" THEN 405 ELSE 404)
                   /\ q.errCalls = <<>>]_vars

\* entry 1 matched path and method of a request but failed its constraint,
\* and the request was dispatched to entry 2
C8_Witness ==
    /\ reqs[1].phase = "done"
    /\ reqs[1].outcome = "exec"
    /\ reqs[1].route = 2
    /\ routes[1].method = reqs[1].method
    /\ PatternTest(routes[1], reqs[1].path)
    /\ ~MatchesPath(1, reqs[1].path)

-----------------------------------------------------------------------------
(* SpecPipe: one route on the app and one in a group with middleware, global *)
(* middleware added at any time, and one request at a time run step by step *)

PipeHandlers == {"ok", "throwErr", "throwStr"}
GlobalMws == {"tf", "sc", "ct"}
GroupMwLists == {<<"w2">>, <<"ct">>, <<"tb">>, <<"ta">>}
PathGU == <<"/", "g", "/", "u">>
GroupG(mws) == [prefix |-> <<"/", "g">>, middleware |-> mws, name |-> <<>>]

InitPipe == \E e \in BOOLEAN : InitWith([DefaultOptions EXCEPT !.onError = e])

NextPipe ==
    \/ \E m \in GlobalMws : Use(m)
    \/ \E h \in PipeHandlers : routes = <<>> /\ AppRoute("GET", PathU, h)
    \/ \E g \in GroupMwLists, h \in PipeHandlers :
          Len(routes) = 1 /\ GroupWith(GroupG(g), "POST", PathU, h)
    \/ \E m \in {"GET", "POST"}, p \in {PathU, PathGU} : Fetch(1, m, p)
    \/ StepNext(1)
    \/ StepHandler(1)
    \/ StepResume(1)
    \/ StepFinish(1)
    \/ Respond(1)

SpecPipe == InitPipe /\ [][NextPipe]_vars

-----------------------------------------------------------------------------
(* Pipeline claims, checked under SpecPipe *)

\* what a middleware's body makes of the outcome of its awaited next()
Through(m, res) ==
    CASE MwKind(m) = "wrap" -> res
      [] MwKind(m) = "transform" ->
            IF res.k = "ret" THEN Ctl("ret", Transformed(m, res.v)) ELSE res
      [] MwKind(m) = "catch" ->
            IF res.k = "throw" THEN Ctl("ret", Recovered(m, res.v)) ELSE res
      [] MwKind(m) = "throwA" ->
            IF res.k = "ret" THEN Ctl("throw", MwError(m)) ELSE res

RECURSIVE Nested(_, _, _)
\* the outcome of the continuation chain[i..] around handler h, as nested calls
Nested(chain, i, h) ==
    IF i > Len(chain) THEN HandlerResult(h)
    ELSE CASE MwKind(chain[i]) = "short" -> Ctl("ret", ShortValue(chain[i]))
           [] MwKind(chain[i]) = "throwB" -> Ctl("throw", MwError(chain[i]))
           [] OTHER -> Through(chain[i], Nested(chain, i + 1, h))

IsPrefix(s, t) == Len(s) <= Len(t) /\ SubSeq(t, 1, Len(s)) = s

HandlerOf(q) == routes[q.route].handler
Executing(q) == q.phase \in {"run", "done"} /\ q.outcome = "exec"
Finished(q) == q.phase = "done" /\ q.outcome = "exec"

\* middleware that does before-work, awaits next() once, does after-work
BeforeAfter(m) == m \in {"w1", "w2", "tf"}

NestedTrace(chain, h) ==
    LET k == Len(chain)
    IN  [i \in 1..k |-> <<"before", i, chain[i]>>]
        \o <<<<"handler", 0, h>>>>
        \o [i \in 1..k |-> <<"after", k + 1 - i, chain[k + 1 - i]>>]

\* C2: when every middleware of the chain does before-work, awaits next() once
\* and does after-work, and the handler returns, the request's observable
\* order is m0-before .. mk-1-before, handler, mk-1-after .. m0-after, at
\* every suspension point a prefix of it.
C2_NestingOrder ==
    \A r \in Requests :
        LET q == reqs[r]
        IN  (/\ Executing(q)
             /\ \A i \in 1..Len(q.chain) : BeforeAfter(q.chain[i])
             /\ HandlerOf(q) = "ok") =>
                /\ IsPrefix(q.trace, NestedTrace(q.chain, HandlerOf(q)))
                /\ q.phase = "done" => q.trace = NestedTrace(q.chain, HandlerOf(q))

\* a request through the chain [tf, tf, w2] finished
C2_Witness ==
    /\ Finished(reqs[1])
    /\ reqs[1].chain = <<"tf", "tf", "w2">>
    /\ Len(reqs[1].trace) = 7

\* C3: if middleware mi returns without calling next(), no later middleware
\* and not the handler is invoked for the request, and the response is built
\* from mi's value as it propagates back through m(i-1) .. m0.
C3_ShortCircuit ==
    \A r \in Requests :
        LET q == reqs[r]
        IN  \A i \in 1..Len(q.chain) :
              (/\ Executing(q)
               /\ q.chain[i] = "sc"
               /\ \A j \in 1..(i - 1) : q.chain[j] # "sc" /\ q.chain[j] # "tb") =>
                  /\ \A e \in 1..Len(q.trace) :
                        q.trace[e][1] # "handler" /\ q.trace[e][2] <= i
                  /\ q.index <= i
                  /\ q.phase = "done" =>
                        LET back == Nested(SubSeq(q.chain, 1, i - 1) \o <<"sc">>,
                                           1, HandlerOf(q))
                        IN  /\ back.k = "ret" =>
                                 q.response = toResponse(back.v)
                            /\ back.k = "ret" => q.errCalls = <<>>

\* a request whose chain is [tf, sc, w2] finished with the transformed value
C3_Witness ==
    /\ Finished(reqs[1])
    /\ reqs[1].chain = <<"tf", "sc", "w2">>
    /\ reqs[1].response.body = Transformed("tf", ShortValue("sc"))

\* C4: a failure raised by the handler or by an inner middleware travels
\* outward through the awaited next() calls; the innermost enclosing
\* middleware that catches it returns a value which the middleware outside
\* it see as the result, the response is built from what m0 returns, and
\* onError and the 500 response are not used.
C4_InnerFailureCaught ==
    \A r \in Requests :
        LET q == reqs[r]
            h == HandlerOf(q)
            k == Len(q.chain)
        IN  \A c \in 1..k :
              (/\ Finished(q)
               /\ MwKind(q.chain[c]) = "catch"
               /\ Nested(q.chain, c + 1, h).k = "throw"
               /\ \A j \in 1..(c - 1) : BeforeAfter(q.chain[j])) =>
                  /\ Nested(q.chain, c, h) =
                        Ctl("ret", Recovered(q.chain[c], Nested(q.chain, c + 1, h).v))
                  /\ q.response = toResponse(Nested(q.chain, 1, h).v)
                  /\ Nested(q.chain, 1, h).k = "ret"
                  /\ q.errCalls = <<>>
                  /\ q.response.status # 500
                  /\ \E e \in 1..Len(q.trace) : q.trace[e] = <<"after", c, q.chain[c]>>

\* the handler threw, ct caught it inside tf, and the response is tf's value
C4_Witness ==
    /\ Finished(reqs[1])
    /\ HandlerOf(reqs[1]) = "throwStr"
    /\ reqs[1].chain = <<"tf", "ct">>
    /\ reqs[1].response.body =
          Transformed("tf", Recovered("ct", Val("string", <<"oops">>)))

\* C5: a failure of the handler or a middleware that no enclosing middleware
\* intercepts does not escape app.fetch: the failure value is passed
\* unchanged, once, to onError with the request's context, and its result is
\* the response; without onError the default 500 JSON response is returned.
C5_UncaughtFailure ==
    \A r \in Requests :
        LET q == reqs[r]
            res == Nested(q.chain, 1, HandlerOf(q))
        IN  /\ (Finished(q) /\ res.k = "throw") =>
                IF options.onError
                THEN /\ q.errCalls = <<[error |-> res.v, params |-> q.params]>>
                     /\ q.response = toResponse(OnErrorValue(res.v))
                ELSE /\ q.errCalls = <<>>
                     /\ q.response.status = 500
                     /\ q.response.ctype = "application/json"
                     /\ q.response.body =
                           JsonError(IF res.v.t = "Error" THEN res.v.x[1]
                                     ELSE "Internal server error")
            /\ (Finished(q) /\ res.k = "ret") => q.errCalls = <<>>
            /\ (Executing(q) /\ q.phase = "run") => q.errCalls = <<>>
            /\ Len(q.errCalls) <= 1
            /\ q.phase # "rejected"

\* the handler threw a bare string through [tf] and onError received it
C5_Witness ==
    /\ Finished(reqs[1])
    /\ options.onError
    /\ HandlerOf(reqs[1]) = "throwStr"
    /\ reqs[1].chain = <<"tf">>
    /\ reqs[1].errCalls = <<[error |-> Val("string", <<"oops">>),
                             params |-> reqs[1].params]>>

-----------------------------------------------------------------------------
(* SpecCache: two requests in flight while middleware is added *)

NextCache ==
    \/ \E m \in {"w1", "w2"} : Use(m)
    \/ routes = <<>> /\ AppRoute("GET", PathU, "ok")
    \/ Len(routes) = 1 /\ GroupWith(GroupG(<<"w2">>), "GET", PathU, "ok")
    \/ \E r \in Requests, p \in {PathU, PathGU} : Fetch(r, "GET", p)
    \/ \E r \in Requests : StepNext(r)
    \/ \E r \in Requests : StepHandler(r)
    \/ \E r \in Requests : StepResume(r)
    \/ \E r \in Requests : StepFinish(r)
    \/ \E r \in Requests : Respond(r)

SpecCache == Init /\ [][NextCache]_vars

\* C6: the chain a dispatch obtains is the current global middleware list in
\* use() order followed by the route's attached middleware, whatever was
\* cached before; a cached chain is returned only when its version is the
\* current one, and the entry stored is the chain just returned.
C6_ChainIsCurrent ==
    /\ [](\A i \in 1..Len(routes) :
            LET got == getMiddlewareChain(middlewareCache,
                           globalMiddlewareVersion, middlewares, routes, i)
            IN  /\ got.chain = middlewares \o routes[i].middleware
                /\ got.cache[i] = [version |-> globalMiddlewareVersion,
                                   chain |-> got.chain]
                /\ (i \in DOMAIN middlewareCache /\ got.cache = middlewareCache)
                      => middlewareCache[i].version = globalMiddlewareVersion)
    /\ [][\A r \in Requests :
            (Dispatched(r) /\ reqs'[r].outcome = "exec") =>
                LET i == reqs'[r].route
                IN  /\ reqs'[r].chain = middlewares \o routes[i].middleware
                    /\ middlewareCache'[i] =
                          [version |-> globalMiddlewareVersion,
                           chain |-> reqs'[r].chain]]_vars

\* request 2 was dispatched to a route (its chain cached), use() added a
\* middleware, and request 1, dispatched to the same route afterwards, runs
\* the longer chain
C6_Witness ==
    /\ Executing(reqs[1]) /\ Executing(reqs[2])
    /\ reqs[1].route = reqs[2].route
    /\ Len(reqs[2].chain) < Len(reqs[1].chain)
    /\ reqs[1].chain = middlewares \o routes[reqs[1].route].middleware
    /\ IsPrefix(reqs[2].chain, middlewares)

-----------------------------------------------------------------------------
(* SpecGroup: routes registered in groups, nested up to MaxDepth, whose     *)
(* prefixes and sub-paths are written with and without slashes              *)

\* the slash-variants of the prefix made of the characters of body:
\* "g", "/g", "g/", "/g/"; for the empty body "" and "/"
SlashVariants(body) ==
    IF body = <<>> THEN {<<>>, <<"/">>}
    ELSE {body, <<"/">> \o body, body \o <<"/">>, <<"/">> \o body \o <<"/">>}

PrefixBodies == {<<>>, <<"g">>}
GroupPrefixes == UNION {SlashVariants(b) : b \in PrefixBodies}
SubPaths == {<<>>, <<"/">>, <<"u">>, <<"/", "u">>}

PrefixOnly(prefix) == [prefix |-> prefix, middleware |-> <<>>, name |-> <<>>]

NextGroup ==
    \/ \E prefix \in GroupPrefixes : GroupOpen(PrefixOnly(prefix))
    \/ \E sub \in SubPaths : GroupRoute("GET", sub, "ok")
    \/ GroupClose

SpecGroup == Init /\ [][NextGroup]_vars

HasDoubleSlash(path) ==
    \E k \in 1..(Len(path) - 1) : path[k] = "/" /\ path[k + 1] = "/"

\* C10 as stated: whatever slash-variant of a prefix a group is declared
\* with (the prefixes "" and "/" included) and whether or not the sub-path
\* starts with a slash, the full path registered is the same for all variants
\* of the prefix and never contains two consecutive slashes.
C10_AsStated ==
    /\ \A i \in 1..Len(routes) : ~HasDoubleSlash(routes[i].path)
    /\ \A b \in PrefixBodies, sub \in SubPaths :
          \A v, w \in SlashVariants(b) : joinPaths(v, sub) = joinPaths(w, sub)

-----------------------------------------------------------------------------
(* SpecNames: routes registered in groups with name prefixes, then named    *)
(* and constrained through their builders                                   *)

NamePrefixes == {<<>>, <<"p", ".">>}
RouteNames == {<<"n">>, <<"m">>}

Named(prefix, name) == [prefix |-> prefix, middleware |-> <<>>, name |-> name]

NextNames ==
    \/ \E np \in NamePrefixes : GroupOpen(Named(<<"/", "g">>, np))
    \/ GroupRoute("GET", PathUI, "ok")
    \/ GroupClose
    \/ \E i \in 1..Len(routes) : WhereNumber(i, "reg", ParamI)
    \/ \E i \in 1..Len(routes), via \in {"reg", "chain"}, n \in RouteNames :
          Name(i, via, n)

SpecNames == Init /\ [][NextNames]_vars

\* C9 as stated: a name N assigned through the builder a group registration
\* returned, directly or after chained constraint calls, is stored with the
\* group's effective name-prefix P in front: afterwards hasRoute(P+N) holds
\* and, for non-empty P, the call has not made hasRoute(N) true.
C9_AsStated ==
    [][\A i \in 1..Len(routes), via \in {"reg", "chain"}, n \in RouteNames :
        Name(i, via, n) =>
            LET P == builders[i].namePrefix
            IN  /\ (P \o n) \in DOMAIN namedRoutes'
                /\ routes'[i].name = [def |-> TRUE, v |-> P \o n]
                /\ (P # <<>> /\ ~hasRoute(n)) => n \notin DOMAIN namedRoutes']_vars

-----------------------------------------------------------------------------
(* SpecAssoc: one route registered through groups nested inside each other, *)
(* app.group(o1, r => r.group(o2, r2 => ... rk.get(path, handler)))         *)

RECURSIVE NestedRouter(_, _, _)
\* group.ts: router.group applied for optsSeq[k], optsSeq[k+1], ... inside router
NestedRouter(router, optsSeq, k) ==
    IF k > Len(optsSeq) THEN router
    ELSE LET opts == optsSeq[k]
         IN  NestedRouter(createGroupRouter(joinPaths(router.prefix, opts.prefix),
                                            router.middleware \o opts.middleware,
                                            router.namePrefix \o opts.name),
                          optsSeq, k + 1)

\* the entry and the builder that the innermost router's get/post/... produces
NestEntry(optsSeq, method, path, handler) ==
    LET first == optsSeq[1]
        router == NestedRouter(createGroupRouter(first.prefix, first.middleware,
                                                 first.name), optsSeq, 2)
    IN  [added |-> addRoute(method, joinPaths(router.prefix, path), handler,
                            router.middleware),
         builder |-> wrapBuilderWithNamePrefix(
                         [namePrefix |-> <<>>, chained |-> FALSE],
                         router.namePrefix)]

GroupNest(optsSeq, method, path, handler) ==
    /\ scopes = <<>>
    /\ LET e == NestEntry(optsSeq, method, path, handler)
       IN  Registered(e.added, e.builder)

NestOptions ==
    {[prefix |-> <<"/", "g">>, middleware |-> <<"w1">>, name |-> <<"p", ".">>],
     [prefix |-> <<"/">>, middleware |-> <<>>, name |-> <<>>],
     [prefix |-> <<"b">>, middleware |-> <<"w2">>, name |-> <<"n", ".">>]}

\* one, two, ..., MaxDepth + 1 levels of nesting
NestSeqs == UNION {[1..d -> NestOptions] : d \in 1..(MaxDepth + 1)}

NextAssoc ==
    \E optsSeq \in NestSeqs, sub \in {<<"u">>, <<"/", "u">>} :
        GroupNest(optsSeq, "GET", sub, "ok")

SpecAssoc == Init /\ [][NextAssoc]_vars

\* the options of one group standing for groups k and k+1 of optsSeq
Flattened(optsSeq, k) ==
    [j \in 1..(Len(optsSeq) - 1) |->
        IF j < k THEN optsSeq[j]
        ELSE IF j > k THEN optsSeq[j + 1]
        ELSE [prefix |-> joinPaths(optsSeq[k].prefix, optsSeq[k + 1].prefix),
              middleware |-> optsSeq[k].middleware \o optsSeq[k + 1].middleware,
              name |-> optsSeq[k].name \o optsSeq[k + 1].name]]

\* C11 as stated: group composition is associative.  A route registered
\* through nested groups gets the same full path, the same attached
\* middleware and the same effective name-prefix as a route registered with
\* any two adjacent levels replaced by the single group that has the joined
\* prefix, the concatenated middleware and the concatenated name-prefix.
C11_AsStated ==
    [][\A optsSeq \in NestSeqs, sub \in {<<"u">>, <<"/", "u">>} :
        (Len(optsSeq) >= 2 /\ GroupNest(optsSeq, "GET", sub, "ok")) =>
            \A k \in 1..(Len(optsSeq) - 1) :
                LET flat == NestEntry(Flattened(optsSeq, k), "GET", sub, "ok")
                    new == routes'[Len(routes')]
                IN  /\ new.path = flat.added.route.path
                    /\ new.middleware = flat.added.route.middleware
                    /\ builders'[Len(builders')].namePrefix =
                          flat.builder.namePrefix]_vars

-----------------------------------------------------------------------------
(* SpecScope: a route registered inside nested groups that carry            *)
(* middleware, a route registered on the app, global middleware added at    *)
(* any time, and requests to the registered paths.  Group callbacks run     *)
(* synchronously, so no request makes a step while one is running.          *)

PathB == <<"/", "b">>
GroupW1 == [prefix |-> <<"/", "g">>, middleware |-> <<"w1">>, name |-> <<>>]
GroupW2 == [prefix |-> PathB, middleware |-> <<"w2">>, name |-> <<>>]
ScopeGlobalMws == {"tf", "w2"}

NextScope ==
    \/ \E m \in ScopeGlobalMws : Use(m)
    \/ \E opts \in {GroupW1, GroupW2} : GroupOpen(opts)
    \/ GroupClose
    \/ routes = <<>> /\ GroupRoute("GET", PathU, "ok")
    \/ Len(routes) = 1 /\ AppRoute("GET", PathU, "ok")
    \/ \E i \in 1..Len(routes) : scopes = <<>> /\ Fetch(1, "GET", routes[i].path)
    \/ scopes = <<>> /\ StepNext(1)
    \/ scopes = <<>> /\ StepHandler(1)
    \/ scopes = <<>> /\ StepResume(1)
    \/ scopes = <<>> /\ StepFinish(1)
    \/ scopes = <<>> /\ Respond(1)

SpecScope == Init /\ [][NextScope]_vars

RECURSIVE DeclaredGroupMiddleware(_, _)
\* the middleware declared by the groups whose prefixes lead to path[i..], outer
\* group first: GroupW1 declares the segment "g", GroupW2 the segment "b"
DeclaredGroupMiddleware(path, i) ==
    IF i + 1 > Len(path) THEN <<>>
    ELSE IF path[i + 1] = "g"
    THEN GroupW1.middleware \o DeclaredGroupMiddleware(path, i + 2)
    ELSE IF path[i + 1] = "b"
    THEN GroupW2.middleware \o DeclaredGroupMiddleware(path, i + 2)
    ELSE <<>>

\* C12: the chain run for a route registered inside nested groups is all
\* global middleware in use() order as it stands when the request is
\* dispatched, then the outer group's middleware, then the inner group's,
\* then the handler, unwinding in reverse; a route registered outside the
\* groups runs the global middleware only.
C12_GroupChainOrder ==
    /\ [](\A r \in Requests :
            LET q == reqs[r]
                expected == NestedTrace(q.chain, HandlerOf(q))
            IN  /\ Executing(q) => IsPrefix(q.trace, expected)
                /\ Finished(q) => q.trace = expected)
    /\ [][\A r \in Requests :
            (Dispatched(r) /\ reqs'[r].outcome = "exec") =>
                reqs'[r].chain =
                    middlewares \o DeclaredGroupMiddleware(reqs'[r].path, 1)]_vars

\* a request to the route registered in GroupW1 > GroupW2 ran tf, w1, w2 and
\* the handler; a later request to the route registered on the app ran tf only
C12_Witness ==
    /\ Finished(reqs[1])
    /\ reqs[1].path = PathU
    /\ middlewares = <<"tf", "w2">>
    /\ reqs[1].chain = <<"tf", "w2">>
    /\ Len(routes) = 2
    /\ routes[1].path = <<"/", "g", "/", "b", "/", "u">>
    /\ 1 \in DOMAIN middlewareCache
    /\ middlewareCache[1].chain = <<"tf", "w1", "w2">>

-----------------------------------------------------------------------------
(* SpecOpt: up to two routes with optional parameters, a required parameter *)
(* or a trailing slash, constrained through their builders, and requests    *)
(* that supply none, some or all of the optional segments                   *)

ParamN == <<"n">>

\* "/a/:i?/:n?", "/u/" (PathUIOpt "/u/:i?" and PathUI "/u/:i" are defined above)
PathAOpt2 == <<"/", "a", "/", ":", "i", "?", "/", ":", "n", "?">>
PathUSlash == <<"/", "u", "/">>
OptTablePaths == {PathAOpt2, PathUIOpt, PathUI, PathUSlash}

\* "/a", "/a/1", "/a/1/x", "/a/x/1", "/u", "/u/1", "/u/x"
SlashlessPaths ==
    {<<"/", "a">>, <<"/", "a", "/", "1">>, <<"/", "a", "/", "1", "/", "x">>,
     <<"/", "a", "/", "x", "/", "1">>,
     PathU, <<"/", "u", "/", "1">>, PathUX}
\* the same paths and each of them followed by one slash
OptRequestPaths == SlashlessPaths \cup {p \o <<"/">> : p \in SlashlessPaths}

NextOpt ==
    \/ \E p \in OptTablePaths : Len(routes) <= 1 /\ AppRoute("GET", p, "ok")
    \/ \E i \in 1..Len(routes) : WhereNumber(i, "reg", ParamI)
    \/ \E i \in 1..Len(routes) : WhereAlpha(i, "reg", ParamI)
    \/ \E i \in 1..Len(routes) : WhereIn(i, "reg", ParamN, {<<"x">>})
    \/ \E p \in OptRequestPaths : Fetch(1, "GET", p)
    \/ StepHandler(1)
    \/ StepFinish(1)
    \/ Respond(1)

SpecOpt == Init /\ [][NextOpt]_vars

\* C13: a constraint never forces an optional parameter to be present.  For
\* every entry and every path matching its pattern, a constrained parameter
\* that the path omits passes the check whatever its rule; the check as a
\* whole passes exactly when every present constrained parameter satisfies
\* its rule, so a present value that fails its rule is still rejected.
C13_AbsentParamPasses ==
    \A i \in 1..Len(routes), p \in OptRequestPaths :
        PatternTest(routes[i], p) =>
            LET params == extractParams(p, routes[i])
                constraints == routes[i].constraints
                present == DOMAIN constraints \cap DOMAIN params
            IN  /\ \A c \in DOMAIN constraints \ DOMAIN params :
                      checkConstraints(params, [x \in {c} |-> constraints[c]])
                /\ checkConstraints(params, constraints) <=>
                      \A c \in present : RuleTest(constraints[c], params[c])
                /\ MatchesPath(i, p) <=>
                      \A c \in present : RuleTest(constraints[c], params[c])

\* "/u" was dispatched to "/u/:i?" constrained by whereNumber("i"), with no
\* params, while "/u/x" is rejected by the same entry
C13_Witness ==
    /\ Finished(reqs[1])
    /\ reqs[1].path = PathU
    /\ reqs[1].params = EmptyFn
    /\ routes[reqs[1].route].path = PathUIOpt
    /\ ParamI \in DOMAIN routes[reqs[1].route].constraints
    /\ routes[reqs[1].route].constraints[ParamI] = RuleNumber
    /\ PatternTest(routes[reqs[1].route], PathUX)
    /\ ~MatchesPath(reqs[1].route, PathUX)

\* the values a request supplies for parameters
SegmentValues == {<<"1">>, <<"x">>}
SuppliedValues == UNION {[1..k -> SegmentValues] : k \in 0..2}

RECURSIVE WithSegments(_, _, _)
\* base followed by "/" and each of vals[k..]
WithSegments(base, vals, k) ==
    IF k > Len(vals) THEN base
    ELSE WithSegments(base \o <<"/">> \o vals[k], vals, k + 1)

\* the literal text in front of the first parameter of the entry's path
LiteralBase(route) ==
    LET colon == CHOOSE j \in 1..Len(route.path) :
                    /\ route.path[j] = ":"
                    /\ \A m \in 1..(j - 1) : route.path[m] # ":"
    IN  SubSeq(route.path, 1, colon - 2)

\* C14: for an entry whose parameters are all optional, every path that
\* supplies the first k optional segments, with or without a trailing slash,
\* matches; the k values go to the first k parameters in order and the other
\* parameters are absent from params.  No params entry of a request is ever
\* the empty string.
C14_OptionalPrefixMatches ==
    /\ \A i \in 1..Len(routes) :
          (routes[i].paramNames # <<>>
             /\ routes[i].optionalParams = routes[i].paramNames) =>
              \A vals \in SuppliedValues :
                  Len(vals) <= Len(routes[i].paramNames) =>
                      LET p == WithSegments(LiteralBase(routes[i]), vals, 1)
                          expected == [nm \in {routes[i].paramNames[k] :
                                                  k \in 1..Len(vals)} |->
                                          vals[CHOOSE k \in 1..Len(vals) :
                                                  routes[i].paramNames[k] = nm]]
                      IN  /\ PatternTest(routes[i], p)
                          /\ PatternTest(routes[i], p \o <<"/">>)
                          /\ extractParams(p, routes[i]) = expected
                          /\ extractParams(p \o <<"/">>, routes[i]) = expected
    /\ \A r \in Requests :
          Executing(reqs[r]) =>
              /\ reqs[r].params =
                    extractParams(reqs[r].path, routes[reqs[r].route])
              /\ \A nm \in DOMAIN reqs[r].params : reqs[r].params[nm] # <<>>

\* "/a/1/" was dispatched to "/a/:i?/:n?" with params { i: "1" } and no n
C14_Witness ==
    /\ Finished(reqs[1])
    /\ reqs[1].path = <<"/", "a", "/", "1", "/">>
    /\ routes[reqs[1].route].path = PathAOpt2
    /\ DOMAIN reqs[1].params = {ParamI}
    /\ reqs[1].params[ParamI] = <<"1">>

\* C15 as stated: for every registered route, however its path was written
\* (a path registered with a trailing slash included), and every request
\* path P not ending in a slash, P matches the route's pattern iff P followed
\* by one slash matches it, and both yield the same params.
C15_AsStated ==
    \A i \in 1..Len(routes), p \in SlashlessPaths :
        /\ PatternTest(routes[i], p) <=> PatternTest(routes[i], p \o <<"/">>)
        /\ extractParams(p, routes[i]) = extractParams(p \o <<"/">>, routes[i])

-----------------------------------------------------------------------------
(* SpecRule: "/u/:i" constrained by where() with patterns the caller wrote, *)
(* anchored or not, as a RegExp or as a string                              *)

StringPattern(source) == [type |-> "string", source |-> source, regexp |-> RuleNumber]
RegExpPattern(regexp) == [type |-> "RegExp", source |-> <<>>, regexp |-> regexp]

WherePatterns ==
    {StringPattern(src) : src \in {<<"^", "\\d", "+", "$">>, <<"\\d", "+">>,
                                   <<"^", "[a-z]", "+", "$">>, <<"[a-z]", "+">>}}
    \cup {RegExpPattern(RuleRegExp(c, a)) : c \in {Digits, Letters}, a \in BOOLEAN}

\* "/u/1", "/u/x", "/u/x1", "/u/1x", "/u/12"
RuleRequestPaths ==
    {PathU \o <<"/">> \o v :
        v \in {<<"1">>, <<"x">>, <<"x", "1">>, <<"1", "x">>, <<"1", "2">>}}

NextRule ==
    \/ Len(routes) <= 1 /\ AppRoute("GET", PathUI, "ok")
    \/ \E i \in 1..Len(routes), pattern \in WherePatterns :
          Where(i, "reg", ParamI, pattern)
    \/ \E i \in 1..Len(routes) : WhereNumber(i, "reg", ParamI)
    \/ \E p \in RuleRequestPaths : Fetch(1, "GET", p)
    \/ StepHandler(1)
    \/ StepFinish(1)
    \/ Respond(1)

SpecRule == Init /\ [][NextRule]_vars

\* the rule's expression matches the value from its first to its last character
FullValueMatch(rule, value) ==
    CASE rule.kind = "number" ->
            Len(value) >= 1 /\ \A k \in 1..Len(value) : value[k] \in Digits
      [] rule.kind = "alpha" ->
            Len(value) >= 1 /\ \A k \in 1..Len(value) : value[k] \in Letters
      [] rule.kind = "in" -> value \in rule.vals
      [] rule.kind \in {"full", "search", "prefix", "suffix"} ->
            Len(value) >= 1 /\ \A k \in 1..Len(value) : value[k] \in rule.vals

\* C16 as stated: a constraint accepts a present parameter value only when
\* the rule matches the entire value, for any rule given to where() as a
\* RegExp or as a string: a value of which only a proper substring satisfies
\* the rule is rejected and the candidate entry is excluded.
C16_AsStated ==
    \A i \in 1..Len(routes), p \in RuleRequestPaths :
        PatternTest(routes[i], p) =>
            LET params == extractParams(p, routes[i])
                constraints == routes[i].constraints
            IN  \A c \in DOMAIN constraints \cap DOMAIN params :
                    ~FullValueMatch(constraints[c], params[c]) =>
                        /\ ~checkConstraints(params, constraints)
                        /\ ~findRoute(routes, routes[i].method, p).found
                              \/ findRoute(routes, routes[i].method, p).idx # i

-----------------------------------------------------------------------------
(* SpecUnique: routes on the app and in a group with a name prefix, named   *)
(* and renamed through their builders with names that collide               *)

GroupP == [prefix |-> <<"/", "g">>, middleware |-> <<>>, name |-> <<"p", ".">>]
CollidingNames == {<<"n">>, <<"p", ".", "n">>}

NextUnique ==
    \/ \E p \in {PathU, PathUI} : AppRoute("GET", p, "ok")
    \/ GroupWith(GroupP, "GET", PathUI, "ok")
    \/ \E i \in 1..Len(routes) : WhereNumber(i, "reg", ParamI)
    \/ \E i \in 1..Len(routes), via \in {"reg", "chain"}, n \in CollidingNames :
          Name(i, via, n)
    \/ \E i \in 1..Len(routes), via \in {"reg", "chain"}, n \in CollidingNames :
          NameThrows(i, via, n)

SpecUnique == Init /\ [][NextUnique]_vars

\* C17: no two entries of the route table carry the same name, and the
\* entry a name is carried by is the one the name map holds for it; a call
\* name(n) made when the (prefixed) name is already assigned throws and
\* leaves the name map and every entry, names included, as they were.
C17_NamesUnique ==
    /\ [](\A i, j \in 1..Len(routes) :
            (i # j /\ routes[i].name.def /\ routes[j].name.def) =>
                routes[i].name.v # routes[j].name.v)
    /\ [](\A i \in 1..Len(routes) :
            routes[i].name.def =>
                /\ routes[i].name.v \in DOMAIN namedRoutes
                /\ namedRoutes[routes[i].name.v] = i)
    /\ [][\A i \in 1..Len(routes), via \in {"reg", "chain"}, n \in CollidingNames :
            ((Name(i, via, n) \/ NameThrows(i, via, n))
                /\ hasRoute(NamePrefixVia(i, via) \o n)) =>
                    /\ namedRoutes' = namedRoutes
                    /\ routes' = routes]_vars

\* "p.n" is carried by the group's entry 1, named "n" through its builder,
\* and entry 2, registered on the app, is unnamed: name("p.n") on it throws
C17_Witness ==
    /\ Len(routes) = 2
    /\ builders[1].namePrefix = <<"p", ".">>
    /\ routes[1].name = [def |-> TRUE, v |-> <<"p", ".", "n">>]
    /\ ~routes[2].name.def
    /\ builders[2].namePrefix = <<>>
    /\ hasRoute(<<"p", ".", "n">>)
    /\ ENABLED NameThrows(2, "reg", <<"p", ".", "n">>)

-----------------------------------------------------------------------------
(* URL generation: named routes with required, optional and no parameters, *)
(* route(name, params) for strings and numbers, and requests for the URLs  *)
(* it returns                                                              *)

\* a path with the text ":i" in a literal segment before the parameter i
PathColon == <<"/", "x", ":", "i", "/", ":", "i">>

UrlPaths == {PathU, PathUI, PathAOpt2, PathColon}

UrlNames == {<<"n">>, <<"p">>}

\* a key that is no path parameter of any route in UrlPaths
QueryKey == <<"b">>

CleanValues ==
    {StringValue(<<"1">>), StringValue(<<"x", " ">>), StringValue(<<>>),
     NumberValue(12)}

ControlValues ==
    {StringValue(<<"x", "LF">>), StringValue(<<"CR">>), StringValue(<<"NUL", "1">>)}

UrlValues == CleanValues \cup ControlValues

Entry(key, value) == [key |-> key, value |-> value]

ParamSetsOver(values) ==
    {<<>>}
    \cup {<<Entry(k, v)>> : k \in {ParamI, QueryKey}, v \in values}
    \cup {<<Entry(ParamI, v), Entry(k, w)>> :
            k \in {ParamN, QueryKey}, v \in values, w \in values}

ParamSets == ParamSetsOver(UrlValues)

NextUrl ==
    \/ \E p \in UrlPaths : Len(routes) <= 1 /\ AppRoute("GET", p, "ok")
    \/ \E i \in 1..Len(routes), n \in UrlNames : Name(i, "reg", n)
    \/ \E n \in UrlNames, ps \in ParamSets : FetchGenerated(1, n, ps)
    \/ \E n \in UrlNames, ps \in ParamSets : RouteThrows(n, ps)
    \/ StepHandler(1)
    \/ StepFinish(1)
    \/ Respond(1)

SpecUrl == InitWith(DefaultOptions) /\ [][NextUrl]_vars

RECURSIVE ExpectedFrom(_, _, _, _)
\* the stored full path read through its compiled pattern, from token ti on,
\* k being the number of parameters already passed: a literal is itself, a
\* parameter is "/" and its encoded value, or nothing when an optional one is
\* not supplied
ExpectedFrom(rt, params, ti, k) ==
    IF ti > Len(rt.pattern) THEN <<>>
    ELSE LET tok == rt.pattern[ti]
         IN  IF tok.t = "lit"
             THEN <<tok.c>> \o ExpectedFrom(rt, params, ti + 1, k)
             ELSE IF tok.t = "tslash"
             THEN ExpectedFrom(rt, params, ti + 1, k)
             ELSE IF HasKey(params, rt.paramNames[k + 1])
             THEN <<"/">>
                  \o encodeURIComponent(String(ValueOf(params, rt.paramNames[k + 1])))
                  \o ExpectedFrom(rt, params, ti + 1, k + 1)
             ELSE ExpectedFrom(rt, params, ti + 1, k + 1)

\* the required parameters of rt that params does not supply
MissingRequired(rt, params) ==
    {k \in 1..Len(rt.paramNames) :
        /\ ~\E m \in 1..Len(rt.optionalParams) :
               rt.optionalParams[m] = rt.paramNames[k]
        /\ ~HasKey(params, rt.paramNames[k])}

\* C18, as stated: route(name, params) fails when no entry carries the name;
\* otherwise it fails naming a required parameter that is not supplied, or
\* returns the stored full path with every supplied parameter's encoded value
\* at that parameter's own position and every absent optional segment removed
\* with its leading separator, so that no placeholder is left.
C18_AsStated ==
    \A n \in UrlNames : \A ps \in ParamSetsOver(CleanValues) :
        LET u == Route(n, ps)
        IN  IF ~hasRoute(n) THEN ~u.ok /\ u.kind = "not found"
            ELSE LET rt == routes[namedRoutes[n]]
                     missing == MissingRequired(rt, ps)
                 IN  IF missing # {}
                     THEN /\ ~u.ok
                          /\ u.kind = "Missing required param"
                          /\ \E k \in missing : u.arg = rt.paramNames[k]
                     ELSE /\ u.ok
                          /\ PathnameOf(u.url) = ExpectedFrom(rt, ps, 1, 0)

\* the params mappings that supply exactly the path parameters of rt
ExactParams(rt) ==
    {ps \in ParamSetsOver(CleanValues) :
        /\ Len(ps) = Len(rt.paramNames)
        /\ \A k \in 1..Len(rt.paramNames) : HasKey(ps, rt.paramNames[k])}

\* an entry before the i-th one answers GET for the path
Shadowed(i, path) == findRoute(SubSeq(routes, 1, i - 1), "GET", path).found

\* C19, as stated: for every named GET route that no earlier entry shadows
\* and every params mapping that supplies exactly its path parameters, the URL
\* route(name, params) returns is matched by findRoute("GET", url) to that same
\* route, and every supplied parameter is extracted as the string form of the
\* supplied value.
C19_AsStated ==
    \A n \in DOMAIN namedRoutes :
        LET i == namedRoutes[n]
            rt == routes[i]
        IN  rt.method = "GET" =>
            \A ps \in ExactParams(rt) :
                LET u == Route(n, ps)
                    path == PathnameOf(u.url)
                    found == findRoute(routes, "GET", path)
                IN  /\ u.ok
                    /\ ~Shadowed(i, path) =>
                          /\ found.found
                          /\ found.idx = i
                          /\ \A k \in 1..Len(ps) :
                                /\ ps[k].key \in DOMAIN found.params
                                /\ found.params[ps[k].key] = String(ps[k].value)

\* some value of params, consumed by the path or left for the query string,
\* has a carriage-return, a line-feed or a NUL in its string form
SuppliesControlChar(ps) ==
    \E k \in 1..Len(ps) : HasControlChar(String(ps[k].value))

\* C20: route(name, params) never returns a string that contains a
\* carriage-return, a line-feed or a NUL, and when any supplied value, whether
\* a path parameter or a left-over one, contains one of them the call fails
\* (with the invalid-character error naming a parameter that does, when the
\* name is registered) and returns nothing.
C20_ControlCharsRejected ==
    \A n \in UrlNames : \A ps \in ParamSets :
        LET u == Route(n, ps)
        IN  /\ u.ok => ~HasControlChar(u.url)
            /\ SuppliesControlChar(ps) =>
                  /\ ~u.ok
                  /\ u.url = <<>>
                  /\ hasRoute(n) =>
                        /\ u.kind = "Invalid character in parameter"
                        /\ \E k \in 1..Len(ps) :
                              /\ ps[k].key = u.arg
                              /\ HasControlChar(String(ps[k].value))

\* the route "/u/:i" is named n; a call whose left-over value holds a line-feed
\* throws, as does one whose path value holds a carriage-return, while the
\* call with clean values returns the URL with the query string
C20_Witness ==
    /\ hasRoute(<<"n">>)
    /\ routes[namedRoutes[<<"n">>]].path = PathUI
    /\ ENABLED RouteThrows(<<"n">>, <<Entry(ParamI, StringValue(<<"1">>)),
                                      Entry(QueryKey, StringValue(<<"x", "LF">>))>>)
    /\ Route(<<"n">>, <<Entry(ParamI, StringValue(<<"CR">>))>>).kind
          = "Invalid character in parameter"
    /\ Route(<<"n">>, <<Entry(ParamI, StringValue(<<"1">>)),
                        Entry(QueryKey, StringValue(<<"x", " ">>))>>)
          = RouteUrl(<<"/", "u", "/", "1", "?", "b", "=", "x", "+">>)

-----------------------------------------------------------------------------
(* Methods: routes of several methods, with and without a constraint, one  *)
(* global and one group middleware, the collaborators for 404 and 405, and *)
(* requests of every kind of method                                        *)

VerbOptions ==
    {DefaultOptions, [DefaultOptions EXCEPT !.onNotFound = TRUE]}
    \cup {[DefaultOptions EXCEPT !.onMethodNotAllowed = k] :
            k \in MethodNotAllowedKinds}

VerbMethods == {"GET", "POST", "DELETE"}
VerbPaths == {PathU, PathUI}
VerbRequestMethods == {"GET", "HEAD", "OPTIONS", "POST", "PUT"}
VerbRequestPaths ==
    {PathU, PathGU, <<"/", "u", "/", "1">>, <<"/", "u", "/", "x">>, <<"/", "x">>}

InitVerbs == \E o \in VerbOptions : InitWith(o)

NextVerbs ==
    \/ middlewares = <<>> /\ Use("w1")
    \/ \E m \in VerbMethods, p \in VerbPaths :
          Len(routes) <= 1 /\ AppRoute(m, p, "ok")
    \/ Len(routes) <= 1 /\ GroupWith(GroupG(<<"w2">>), "GET", PathU, "ok")
    \/ \E i \in 1..Len(routes) : WhereNumber(i, "reg", ParamI)
    \/ \E m \in VerbRequestMethods, p \in VerbRequestPaths : Fetch(1, m, p)
    \/ StepNext(1)
    \/ StepHandler(1)
    \/ StepResume(1)
    \/ StepFinish(1)
    \/ Respond(1)

SpecVerbs == InitVerbs /\ [][NextVerbs]_vars

\* C21: an OPTIONS request whose path some entry matches (pattern and
\* constraints) is answered at once with a bodyless 204 whose Allow header is
\* the computed allowed-methods list, and no middleware and no handler runs
\* for it; an OPTIONS request whose path no entry matches gets the 404
\* response (onNotFound's, or the default one with status 404 and no Allow).
C21_OptionsShortCircuit ==
    /\ [](\A r \in Requests :
            (reqs[r].phase # "idle" /\ reqs[r].method = "OPTIONS") =>
                /\ reqs[r].phase = "done"
                /\ reqs[r].trace = <<>>
                /\ reqs[r].chain = <<>>)
    /\ [][\A r \in Requests :
            (Dispatched(r) /\ reqs'[r].method = "OPTIONS") =>
                LET q == reqs'[r]
                IN  /\ middlewareCache' = middlewareCache
                    /\ IF \E i \in 1..Len(routes) : MatchesPath(i, q.path)
                       THEN q.response =
                               [status |-> 204, ctype |-> "", body |-> NullValue,
                                allow |-> Header(Join(
                                             getAllowedMethods(routes, q.path)))]
                       ELSE /\ q.response = handleNotFound(options)
                            /\ ~options.onNotFound =>
                                  /\ q.response.status = 404
                                  /\ ~q.response.allow.def]_vars

\* with a global middleware registered, OPTIONS /u has been answered 204 with
\* Allow: GET, POST and nothing ran
C21_Witness ==
    /\ middlewares = <<"w1">>
    /\ reqs[1].phase = "done"
    /\ reqs[1].method = "OPTIONS"
    /\ reqs[1].path = PathU
    /\ reqs[1].response.status = 204
    /\ reqs[1].response.body = NullValue
    /\ reqs[1].response.allow = Header(<<"GET", ", ", "POST">>)
    /\ reqs[1].trace = <<>>

\* the table with one more entry, as addRoute("HEAD", ...) would have made it
\* for the path, handler and constraints of entry i
WithHeadEntry(i) == Append(routes, [routes[i] EXCEPT !.method = "HEAD"])

\* C22: a HEAD request that no HEAD entry qualifies for while a GET entry does
\* is dispatched to the first qualifying GET entry with the chain and params a
\* GET request gets, the chain and the handler run, and the response has the
\* status and headers of the handler's response and no body; a qualifying
\* HEAD entry is preferred to the GET one; a HEAD request that neither
\* qualifies for ends as the 405 or 404 any other method gets.
C22_HeadFallsBackToGet ==
    /\ [][\A r \in Requests :
            (Dispatched(r) /\ reqs'[r].method = "HEAD") =>
                LET q == reqs'[r]
                    heads == Qualifying("HEAD", q.path)
                    gets == Qualifying("GET", q.path)
                    first(S) == CHOOSE i \in S : \A j \in S : i <= j
                    used == IF heads # {} THEN first(heads) ELSE first(gets)
                IN  IF heads # {} \/ gets # {}
                    THEN /\ q.outcome = "exec"
                         /\ q.route = used
                         /\ q.params = extractParams(q.path, routes[used])
                         /\ q.chain = middlewares \o routes[used].middleware
                    ELSE IF \E i \in 1..Len(routes) : MatchesPath(i, q.path)
                    THEN /\ q.outcome = "405"
                         /\ q.response =
                               handleMethodNotAllowed(q.path, routes, options)
                    ELSE /\ q.outcome = "404"
                         /\ q.response = handleNotFound(options)]_vars
    /\ [][\A r \in Requests :
            (/\ reqs[r].method = "HEAD"
             /\ reqs[r].phase = "run"
             /\ reqs'[r].phase = "done"
             /\ reqs[r].ctl.k = "ret") =>
                LET made == toResponse(reqs[r].ctl.v)
                    sent == reqs'[r].response
                IN  /\ sent.status = made.status
                    /\ sent.ctype = made.ctype
                    /\ sent.allow = made.allow
                    /\ sent.body = NullValue
                    /\ reqs'[r].trace =
                          NestedTrace(reqs[r].chain,
                                      routes[reqs[r].route].handler)]_vars
    /\ [](\A i \in 1..Len(routes) : \A p \in VerbRequestPaths :
            (routes[i].method = "GET" /\ MatchesPath(i, p)) =>
                /\ normalizeHeadMethod("HEAD", p, WithHeadEntry(i)) = "HEAD"
                /\ findRoute(WithHeadEntry(i), "HEAD", p).idx = Len(routes) + 1)

\* HEAD /g/u was served by the grouped GET entry behind the global and the
\* group middleware: status and content type of the handler's response, no body
C22_Witness ==
    /\ reqs[1].phase = "done"
    /\ reqs[1].method = "HEAD"
    /\ reqs[1].path = PathGU
    /\ reqs[1].outcome = "exec"
    /\ routes[reqs[1].route].method = "GET"
    /\ reqs[1].chain = <<"w1", "w2">>
    /\ reqs[1].response.status = 200
    /\ reqs[1].response.ctype = "application/json"
    /\ reqs[1].response.body = NullValue

\* the position of a method name in the order of sort() (code unit order)
SortRank(m) == CHOOSE k \in 1..Len(MethodOrder) : MethodOrder[k] = m

\* the text of the methods separated by ", "
CommaSeparated(list) ==
    [k \in 1..(IF list = <<>> THEN 0 ELSE 2 * Len(list) - 1) |->
        IF k % 2 = 1 THEN list[(k + 1) \div 2] ELSE ", "]

\* C23: getAllowedMethods(path) holds exactly the methods of the entries whose
\* pattern and constraints match the path, each once, in sorted order; the
\* default 405 response and the OPTIONS 204 response carry that list joined by
\* ", " as their Allow header, and onMethodNotAllowed is called with that list.
C23_AllowedMethods ==
    /\ [](\A p \in VerbRequestPaths :
            LET allowed == getAllowedMethods(routes, p)
            IN  /\ {allowed[k] : k \in 1..Len(allowed)}
                      = {routes[i].method :
                           i \in {j \in 1..Len(routes) : MatchesPath(j, p)}}
                /\ \A j, k \in 1..Len(allowed) :
                      j < k => SortRank(allowed[j]) < SortRank(allowed[k]))
    /\ [][\A r \in Requests :
            Dispatched(r) =>
                LET q == reqs'[r]
                    allowed == getAllowedMethods(routes, q.path)
                IN  /\ (q.outcome = "405" /\ options.onMethodNotAllowed = "none")
                          => q.response.allow = Header(CommaSeparated(allowed))
                    /\ (q.outcome = "options" /\ q.response.status = 204)
                          => q.response.allow = Header(CommaSeparated(allowed))
                    /\ (/\ q.outcome = "405"
                        /\ options.onMethodNotAllowed \in {"plain", "object"})
                          => q.response.body = Val("obj", <<"allowed">> \o allowed)]_vars

\* DELETE /u/:i with whereNumber, then GET /u/:i registered:
\* PUT /u/x is a 405 whose Allow header is "GET", the DELETE entry's
\* constraint excluding it
C23_ConstraintWitness ==
    /\ Len(routes) = 2
    /\ routes[1].method = "DELETE"
    /\ routes[1].path = PathUI
    /\ routes[1].constraints # EmptyFn
    /\ routes[2].method = "GET"
    /\ routes[2].path = PathUI
    /\ routes[2].constraints = EmptyFn
    /\ options.onMethodNotAllowed = "none"
    /\ reqs[1].phase = "done"
    /\ reqs[1].method = "PUT"
    /\ reqs[1].path = <<"/", "u", "/", "x">>
    /\ reqs[1].outcome = "405"
    /\ reqs[1].response.allow = Header(<<"GET">>)

\* POST /u and DELETE /u registered in that order, onMethodNotAllowed given:
\* it was called with DELETE, POST
C23_Witness ==
    /\ Len(routes) = 2
    /\ routes[1].method = "POST"
    /\ routes[2].method = "DELETE"
    /\ options.onMethodNotAllowed = "plain"
    /\ reqs[1].phase = "done"
    /\ reqs[1].outcome = "405"
    /\ reqs[1].response.body = Val("obj", <<"allowed", "DELETE", "POST">>)
    /\ reqs[1].response.allow = Header(<<"DELETE", ", ", "POST">>)

\* C24, as stated: on the 405 path with an onMethodNotAllowed collaborator, a
\* normalized response without an Allow header is returned with Allow set to
\* the computed allowed-methods list and with the collaborator's status and
\* body; a response on which the collaborator set an Allow header is returned
\* with that header unchanged.
C24_AsStated ==
    [][\A r \in Requests :
        (/\ Dispatched(r)
         /\ reqs'[r].outcome = "405"
         /\ options.onMethodNotAllowed # "none") =>
            LET allowed == getAllowedMethods(routes, reqs'[r].path)
                normalized == toResponse(OnMethodNotAllowedValue(
                                  options.onMethodNotAllowed, allowed))
                sent == reqs'[r].response
            IN  /\ sent.status = normalized.status
                /\ sent.body = normalized.body
                /\ sent.ctype = normalized.ctype
                /\ IF normalized.allow.def
                   THEN sent.allow = normalized.allow
                   ELSE sent.allow = Header(CommaSeparated(allowed))]_vars

-----------------------------------------------------------------------------
(* Locals: two requests in flight on one route behind a global middleware, *)
(* each writing to its ctx.locals at any point of its run                   *)

LocalKeys == {"userId"}
LocalValues == {"a", "b"}

NextLocals ==
    \/ middlewares = <<>> /\ Use("w1")
    \/ routes = <<>> /\ AppRoute("GET", PathU, "ok")
    \/ \E r \in Requests : Fetch(r, "GET", PathU)
    \/ \E r \in Requests, k \in LocalKeys, v \in LocalValues : SetLocal(r, k, v)
    \/ \E r \in Requests : StepNext(r)
    \/ \E r \in Requests : StepHandler(r)
    \/ \E r \in Requests : StepResume(r)
    \/ \E r \in Requests : StepFinish(r)
    \/ \E r \in Requests : Respond(r)

SpecLocals == InitWith(DefaultOptions) /\ [][NextLocals]_vars

\* the requests whose context exists
InFlight == {r \in Requests : reqs[r].locals # 0}

\* what request r reads through its ctx.locals
Locals(r) == heap[reqs[r].locals]

\* C25: every request starts with its own empty locals; a step of one request
\* (a write to its ctx.locals included) never changes what another request in
\* flight reads through its ctx.locals, whatever the interleaving; the locals
\* object of a new request is none that an earlier or current request holds.
C25_LocalsIsolated ==
    /\ [](\A r1, r2 \in InFlight :
            r1 # r2 => reqs[r1].locals # reqs[r2].locals)
    /\ [](\A r \in InFlight : reqs[r].locals \in DOMAIN heap)
    /\ [][\A r \in Requests :
            (reqs[r].locals = 0 /\ reqs'[r].locals # 0) =>
                /\ reqs'[r].locals \notin DOMAIN heap
                /\ heap'[reqs'[r].locals] = EmptyFn]_vars
    /\ [][\A r1, r2 \in Requests :
            (r1 # r2 /\ reqs[r2].locals # 0 /\ reqs'[r2] = reqs[r2]) =>
                \* a step of r1, or a write that r1 observes, is not seen by r2
                ((reqs'[r1] # reqs[r1]
                  \/ (/\ reqs[r1].locals # 0
                      /\ heap'[reqs[r1].locals] # heap[reqs[r1].locals]))
                    => heap'[reqs[r2].locals] = heap[reqs[r2].locals])]_vars

\* both requests are suspended in the middleware, one has written userId = a
\* and the other userId = b, and each reads its own value
C25_Witness ==
    /\ reqs[1].phase = "run"
    /\ reqs[2].phase = "run"
    /\ Locals(1) # EmptyFn
    /\ Locals(2) # EmptyFn
    /\ Locals(1)["userId"] = "a"
    /\ Locals(2)["userId"] = "b"

\* C26: middleware runs only after a route has matched: a request that
\* resolves to 404 or to 405 is answered at once, with no middleware of use()
\* and no group middleware invoked, no chain built and no handler run.
C26_NoMiddlewareWithoutMatch ==
    /\ [](\A r \in Requests :
            reqs[r].outcome \in {"404", "405"} =>
                /\ reqs[r].phase = "done"
                /\ reqs[r].trace = <<>>
                /\ reqs[r].chain = <<>>
                /\ reqs[r].stack = <<>>)
    /\ [][\A r \in Requests :
            (Dispatched(r) /\ reqs'[r].method # "OPTIONS"
                /\ Qualifying(EffectiveMethod(reqs'[r].method, reqs'[r].path),
                              reqs'[r].path) = {}) =>
                /\ reqs'[r].outcome \in {"404", "405"}
                /\ reqs'[r].trace = <<>>
                /\ middlewareCache' = middlewareCache]_vars

\* with the global middleware and the grouped route with its middleware
\* registered, POST /g/u ended as 405 and nothing ran
C26_Witness ==
    /\ middlewares = <<"w1">>
    /\ \E i \in 1..Len(routes) : routes[i].middleware = <<"w2">>
    /\ reqs[1].phase = "done"
    /\ reqs[1].method = "POST"
    /\ reqs[1].path = PathGU
    /\ reqs[1].outcome = "405"
    /\ reqs[1].trace = <<>>

-----------------------------------------------------------------------------
(* Duplicate parameter names: paths that declare a name twice, directly or *)
(* through a group prefix, next to paths that do not                       *)

PathII == <<"/", ":", "i", "/", ":", "i">>
PathIOptI == <<"/", "u", "/", ":", "i", "/", "x", "/", ":", "i", "?">>
PathIN == <<"/", ":", "i", "/", ":", "n">>
PathI == <<"/", ":", "i">>
PathN == <<"/", ":", "n">>

DuplicatePaths == {PathII, PathIOptI}
DistinctPaths == {PathIN, PathUI, PathU}
GroupI == [prefix |-> PathI, middleware |-> <<>>, name |-> <<>>]

NextDup ==
    \/ \E p \in DistinctPaths : AppRoute("GET", p, "ok")
    \/ \E p \in DuplicatePaths : AppRouteThrows("GET", p, "ok")
    \/ GroupWith(GroupI, "POST", PathN, "ok")
    \/ GroupWithThrows(GroupI, "POST", PathI, "ok")
    \/ \E p \in {<<"/", "1", "/", "2">>, <<"/", "u", "/", "1">>, PathU} :
          Fetch(1, "GET", p)
    \/ StepHandler(1)
    \/ StepFinish(1)
    \/ Respond(1)

SpecDup == InitWith(DefaultOptions) /\ [][NextDup]_vars

NoRepeat(seq) == \A j, k \in 1..Len(seq) : seq[j] = seq[k] => j = k

\* C27: a registration whose path declares a parameter name twice, directly
\* or through the prefix of its group, throws, and no entry is appended: the
\* only registrations that change the table are those of paths with distinct
\* names, every entry of the table has distinct parameter names, and the call
\* that throws leaves routes, names, builders and every later lookup as before.
C27_DuplicateParamRejected ==
    /\ [](\A i \in 1..Len(routes) : NoRepeat(routes[i].paramNames))
    /\ [](\A p \in DuplicatePaths :
            /\ ~compilePath(p).ok
            /\ ~addRoute("GET", p, "ok", <<>>).ok
            /\ ~ENABLED AppRoute("GET", p, "ok"))
    /\ [](~compilePath(joinPaths(normalizePrefix(PathI), PathI)).ok
          /\ ~ENABLED GroupWith(GroupI, "POST", PathI, "ok"))
    /\ [](\A p \in DistinctPaths : compilePath(p).ok)
    /\ [][routes' # routes =>
            /\ Len(routes') = Len(routes) + 1
            /\ SubSeq(routes', 1, Len(routes)) = routes
            /\ routes'[Len(routes')].path
                  \in DistinctPaths \cup {joinPaths(normalizePrefix(PathI), PathN)}]_vars

\* one route is registered, the registrations of /:i/:i and of /:i inside the
\* group /:i throw, and a request has been served by the route that is there
C27_Witness ==
    /\ Len(routes) = 1
    /\ routes[1].path = PathIN
    /\ ENABLED AppRouteThrows("GET", PathII, "ok")
    /\ ENABLED GroupWithThrows(GroupI, "POST", PathI, "ok")
    /\ reqs[1].phase = "done"
    /\ reqs[1].outcome = "exec"
    /\ reqs[1].params = [k \in {<<"i">>, <<"n">>} |->
                            IF k = <<"i">> THEN <<"1">> ELSE <<"2">>]

-----------------------------------------------------------------------------
(* Declared constraints: where() with string rules that compile and that do *)
(* not, in both call forms, whereIn() with and without values, and requests *)

GoodSources == {<<"^", "\\d", "+", "$">>, <<"[a-z]", "+">>, <<"^", "[a-z]", "+">>}
BadSources == {<<"(?<">>, <<"[", "$">>, <<"+">>}

ObjectForms ==
    {<<[param |-> ParamI, pattern |-> StringPattern(<<"^", "\\d", "+", "$">>)],
       [param |-> ParamN, pattern |-> StringPattern(src)]>> :
        src \in {<<"[", "$">>, <<"[a-z]", "+", "$">>}}

NextWhere ==
    \/ \E p \in {PathUI, PathAOpt2} : Len(routes) <= 1 /\ AppRoute("GET", p, "ok")
    \/ \E i \in 1..Len(routes), src \in GoodSources \cup BadSources \cup {<<>>} :
          Where(i, "reg", ParamI, StringPattern(src))
    \/ \E i \in 1..Len(routes), src \in GoodSources \cup BadSources \cup {<<>>} :
          WhereThrows(i, "reg", ParamI, StringPattern(src))
    \/ \E i \in 1..Len(routes), entries \in ObjectForms : WhereAll(i, "reg", entries)
    \/ \E i \in 1..Len(routes) : WhereIn(i, "reg", ParamN, {<<"x">>})
    \/ \E i \in 1..Len(routes) : WhereInThrows(i, "reg", ParamN)
    \/ \E p \in {<<"/", "u", "/", "1">>, <<"/", "u", "/", "x">>,
                 <<"/", "a", "/", "1", "/", "x">>, <<"/", "a">>} :
          Fetch(1, "GET", p)
    \/ StepHandler(1)
    \/ StepFinish(1)
    \/ Respond(1)

SpecWhere == InitWith(DefaultOptions) /\ [][NextWhere]_vars

\* the rules pattern.test can be called on: RegExp objects
CompiledKinds == {"number", "alpha", "in", "full", "search", "prefix", "suffix", "any"}

\* C28: an invalid constraint is rejected when it is declared: where() with a
\* string that does not compile throws an error naming the parameter and
\* stores nothing for it, whereIn() with no value throws; every rule in the
\* table is a compiled expression, so every request is dispatched to an
\* outcome whatever where()/whereX() calls succeeded before.
C28_InvalidRuleRejectedAtDeclaration ==
    /\ [](\A src \in BadSources : \A param \in {ParamI, ParamN} :
            /\ ~compilePattern(src, param).ok
            /\ compilePattern(src, param).param = param
            /\ \A i \in 1..Len(routes) :
                  /\ ~ENABLED Where(i, "reg", param, StringPattern(src))
                  /\ ENABLED WhereThrows(i, "reg", param, StringPattern(src)))
    /\ [](\A i \in 1..Len(routes) : ~ENABLED WhereIn(i, "reg", ParamN, {}))
    /\ [](\A i \in 1..Len(routes) : \A param \in DOMAIN routes[i].constraints :
            routes[i].constraints[param].kind \in CompiledKinds)
    /\ [][\A i \in 1..Len(routes) : \A entries \in ObjectForms :
            LET done == WhereEach(routes[i], entries, 1)
            IN  ~done.ok =>
                   /\ done.param = ParamN
                   /\ ParamN \in DOMAIN done.route.constraints
                         => ParamN \in DOMAIN routes[i].constraints
                            /\ done.route.constraints[ParamN]
                                  = routes[i].constraints[ParamN]]_vars
    /\ [](\A r \in Requests :
            reqs[r].phase # "idle" => reqs[r].outcome \in {"exec", "404", "405"})

\* /u/:i carries the rule of a where() that succeeded, the where() with "(?<"
\* throws, and GET /u/x was dispatched against the rule and found no route
C28_Witness ==
    /\ Len(routes) >= 1
    /\ routes[1].path = PathUI
    /\ ParamI \in DOMAIN routes[1].constraints
    /\ routes[1].constraints[ParamI] = RuleRegExp(Digits, TRUE)
    /\ ENABLED WhereThrows(1, "reg", ParamI, StringPattern(<<"(?<">>))
    /\ reqs[1].phase = "done"
    /\ reqs[1].path = <<"/", "u", "/", "x">>
    /\ reqs[1].outcome = "404"

-----------------------------------------------------------------------------
(* Repeated requests against rules written as RegExp objects, with and      *)
(* without the g flag                                                       *)

GlobalRules ==
    {RuleGlobal(Digits, a) : a \in BOOLEAN} \cup {RuleRegExp(Digits, TRUE)}

GlobalRequestPaths ==
    {<<"/", "u", "/", "1">>, <<"/", "u", "/", "1", "2">>, <<"/", "u", "/", "x">>}

NextGlobal ==
    \/ \E m \in {"GET", "POST"} : Len(routes) <= 1 /\ AppRoute(m, PathUI, "ok")
    \/ \E i \in 1..Len(routes), rule \in GlobalRules :
          Where(i, "reg", ParamI, RegExpPattern(rule))
    \/ \E m \in {"GET", "HEAD", "OPTIONS"}, p \in GlobalRequestPaths :
          Fetch(1, m, p)
    \/ StepHandler(1)
    \/ StepFinish(1)
    \/ Respond(1)

SpecGlobal == InitWith(DefaultOptions) /\ [][NextGlobal]_vars

\* C29: lookup is deterministic: when a request has been dispatched, an
\* identical request (same method, same path) against the same table resolves
\* to the same route entry with the same params, or to no entry if the first
\* resolved to none.
C29_AsStated ==
    [][\A r \in Requests :
          (reqs[r].phase = "idle" /\ reqs'[r].phase # "idle") =>
             LET method == reqs'[r].method
                 path == reqs'[r].path
                 again == Lookups(routes', method, path).match
             IN  /\ method # "OPTIONS" =>
                       (again.found <=> reqs'[r].outcome = "exec")
                 /\ reqs'[r].outcome = "exec" =>
                       /\ again.idx = reqs'[r].route
                       /\ again.params = reqs'[r].params]_vars

-----------------------------------------------------------------------------
(* Builders kept and used later: name "m" and the rules other than          *)
(* whereNumber are applied through a builder only when a route has been     *)
(* registered after the one the builder was returned for                    *)

FrameRules == {RuleNumber, RuleAlpha, RuleIn({<<"x">>})}

NextFrame ==
    \/ \E p \in {PathU, PathUI} : Len(routes) <= 1 /\ AppRoute("GET", p, "ok")
    \/ Len(routes) <= 1 /\ GroupWith(GroupP, "GET", PathUI, "ok")
    \/ \E i \in 1..Len(routes), via \in {"reg", "chain"}, n \in RouteNames :
          /\ n = <<"m">> => i < Len(routes)
          /\ Name(i, via, n)
    \/ \E i \in 1..Len(routes), via \in {"reg", "chain"}, rule \in FrameRules :
          /\ rule # RuleNumber => i < Len(routes)
          /\ Constrain(i, via, ParamI, rule)
    \/ \E i \in 1..Len(routes), entries \in ObjectForms :
          i < Len(routes) /\ WhereAll(i, "reg", entries)

SpecFrame == Init /\ [][NextFrame]_vars

\* name and constraints of every entry but the i-th are left as they were, and
\* no entry is added or removed
OthersKept(i) ==
    /\ Len(routes') = Len(routes)
    /\ \A j \in 1..Len(routes) :
          j # i => /\ routes'[j].name = routes[j].name
                   /\ routes'[j].constraints = routes[j].constraints

\* C30: name() and where()/whereX() called on the builder a registration call
\* returned, at once or through a chained call, modify the entry that very
\* call created, also when other routes were registered in between: the entry
\* gets the name, or the rule for the parameter, and the name and the
\* constraints of every other entry stay as they were.
C30_BuilderModifiesOwnEntry ==
    [][\A i \in 1..Len(routes), via \in {"reg", "chain"} :
          /\ \A n \in RouteNames :
                Name(i, via, n) =>
                   /\ routes'[i].name.def
                   /\ routes'[i].name.v = NamePrefixVia(i, via) \o n
                   /\ namedRoutes'[routes'[i].name.v] = i
                   /\ routes'[i].constraints = routes[i].constraints
                   /\ OthersKept(i)
          /\ \A rule \in FrameRules :
                Constrain(i, via, ParamI, rule) =>
                   /\ ParamI \in DOMAIN routes'[i].constraints
                   /\ routes'[i].constraints[ParamI] = rule
                   /\ routes'[i].name = routes[i].name
                   /\ OthersKept(i)
          /\ \A entries \in ObjectForms :
                WhereAll(i, via, entries) =>
                   /\ routes'[i].constraints[ParamI] = RuleRegExp(Digits, TRUE)
                   /\ routes'[i].name = routes[i].name
                   /\ OthersKept(i)]_vars

\* the first entry was named "m" and given the whereAlpha rule through its
\* builder after a second route was registered; the second entry has neither
C30_Witness ==
    /\ Len(routes) >= 2
    /\ routes[1].name = [def |-> TRUE, v |-> <<"m">>]
    /\ ParamI \in DOMAIN routes[1].constraints
    /\ routes[1].constraints[ParamI] = RuleAlpha
    /\ ~routes[2].name.def
    /\ routes[2].constraints = EmptyFn

-----------------------------------------------------------------------------
(* Every kind of operation on one application: registrations that succeed   *)
(* and that throw, a group, use, name, where, route() and requests          *)

TableParams == {<<>>, <<Entry(ParamI, StringValue(<<"1">>))>>}

NextTable ==
    \/ \E m \in {"GET", "POST"}, p \in {PathU, PathUI} : AppRoute(m, p, "ok")
    \/ \E p \in DuplicatePaths : AppRouteThrows("GET", p, "ok")
    \/ GroupWith(GroupP, "GET", PathUI, "ok")
    \/ middlewares = <<>> /\ Use("w1")
    \/ \E i \in 1..Len(routes) : Name(i, "reg", <<"n">>)
    \/ \E i \in 1..Len(routes) : WhereNumber(i, "reg", ParamI)
    \/ \E ps \in TableParams : FetchGenerated(1, <<"n">>, ps)
    \/ \E ps \in TableParams : RouteThrows(<<"n">>, ps)
    \/ \E m \in {"GET", "PUT", "OPTIONS"}, p \in {PathU, <<"/", "u", "/", "x">>} :
          Fetch(1, m, p)
    \/ StepNext(1)
    \/ StepHandler(1)
    \/ StepResume(1)
    \/ StepFinish(1)
    \/ Respond(1)

SpecTable == InitWith(DefaultOptions) /\ [][NextTable]_vars

\* the (method, full path) pairs getRoutes() reports
MethodPaths(rs) ==
    [i \in 1..Len(rs) |-> <<getRoutes(rs)[i].method, getRoutes(rs)[i].path>>]

\* C31: the route table is append-only: whatever the operation, the (method,
\* full path) pairs getRoutes() reported before it are a prefix of those it
\* reports after it; the table grows by at most one entry, at the end, and
\* only in a step that returns a new builder and is no use, name, where,
\* route or dispatch (middleware, names, constraints and requests unchanged).
C31_AppendOnly ==
    [][/\ Len(routes') >= Len(routes)
       /\ Len(routes') <= Len(routes) + 1
       /\ SubSeq(MethodPaths(routes'), 1, Len(routes)) = MethodPaths(routes)
       /\ Len(routes') = Len(routes) + 1 =>
             /\ Len(builders') = Len(builders) + 1
             /\ SubSeq(routes', 1, Len(routes)) = routes
             /\ UNCHANGED <<middlewares, namedRoutes, reqs>>]_vars

\* two entries are in the table in registration order, the first was named
\* and constrained after the second was added, and a request was dispatched
C31_Witness ==
    /\ Len(routes) = 2
    /\ MethodPaths(routes) = <<<<"GET", PathUI>>, <<"POST", PathU>>>>
    /\ routes[1].name.def
    /\ ParamI \in DOMAIN routes[1].constraints
    /\ middlewares # <<>>
    /\ reqs[1].phase = "done"

-----------------------------------------------------------------------------
(* createApp({ basePath }): the base path "/a" in its three spellings, "/"   *)
(* and none, with routes of the application and of nested groups            *)

BasePaths == {<<"/", "a">>, <<"/", "a", "/">>, <<"a">>, <<"/">>, <<>>}

GroupB == [prefix |-> <<"/", "b">>, middleware |-> <<>>, name |-> <<>>]
BaseGroups == {<<GroupG(<<>>)>>, <<GroupG(<<>>), GroupB>>}

BaseRequestPaths ==
    {PathU, PathGU, <<"/", "a", "/", "u">>, <<"/", "a", "/", "g", "/", "u">>,
     <<"/", "a", "/", "g", "/", "b", "/", "u">>, <<"/", "g", "/", "b", "/", "u">>,
     <<"/", "a", "/", "u", "/", "1">>}

InitBase == \E b \in BasePaths : InitWith([DefaultOptions EXCEPT !.basePath = b])

NextBase ==
    \/ \E p \in {PathU, PathUI} : AppRoute("GET", p, "ok")
    \/ \E optsSeq \in BaseGroups : GroupNest(optsSeq, "GET", PathU, "ok")
    \/ \E i \in 1..Len(routes) : Name(i, "reg", <<"n">>)
    \/ \E ps \in TableParams : FetchGenerated(1, <<"n">>, ps)
    \/ \E ps \in TableParams : RouteThrows(<<"n">>, ps)
    \/ \E p \in BaseRequestPaths : Fetch(1, "GET", p)
    \/ StepHandler(1)
    \/ StepFinish(1)
    \/ Respond(1)

SpecBase == InitBase /\ [][NextBase]_vars

\* the prefix the base path stands for: "/a", "/a/" and "a" are "/a", and "/"
\* is no prefix
NormalBase ==
    IF options.basePath \in {<<"/", "a">>, <<"/", "a", "/">>, <<"a">>}
    THEN <<"/", "a">>
    ELSE <<>>

RECURSIVE PrefixesOf(_, _)
\* the prefixes of nested groups, outer to inner
PrefixesOf(optsSeq, k) ==
    IF k > Len(optsSeq) THEN <<>>
    ELSE optsSeq[k].prefix \o PrefixesOf(optsSeq, k + 1)

\* C32: with a base path B the full path of a route is the normalized B, then
\* the prefixes of the enclosing groups outer to inner, then the route path,
\* the same for "/a", "/a/" and "a" and without prefix for "/"; no path
\* outside B is matched by any entry and a request to one ends as not found;
\* route() builds URLs that start with B, the full path itself for a route
\* without parameters.
C32_BasePath ==
    /\ [][/\ \A p \in {PathU, PathUI} :
                AppRoute("GET", p, "ok") =>
                   routes'[Len(routes')].path = NormalBase \o p
          /\ \A optsSeq \in BaseGroups :
                GroupNest(optsSeq, "GET", PathU, "ok") =>
                   routes'[Len(routes')].path
                      = NormalBase \o PrefixesOf(optsSeq, 1) \o PathU]_vars
    /\ [](\A i \in 1..Len(routes) : IsPrefix(NormalBase, routes[i].path))
    /\ [](\A p \in BaseRequestPaths :
            ~IsPrefix(NormalBase, p) =>
               /\ ~hasMatchingPath(routes, p)
               /\ \A r \in Requests :
                     (reqs[r].phase # "idle" /\ reqs[r].path = p) =>
                        reqs[r].outcome = "404")
    /\ [](\A ps \in TableParams :
            Route(<<"n">>, ps).ok =>
               /\ IsPrefix(NormalBase, Route(<<"n">>, ps).url)
               /\ routes[namedRoutes[<<"n">>]].paramNames = <<>> =>
                     PathnameOf(Route(<<"n">>, ps).url)
                        = routes[namedRoutes[<<"n">>]].path)

\* the base path was written "a": the route of the nested groups is
\* "/a/g/b/u" and has the name "n", route() gives that path, GET /g/b/u was
\* not found
C32_Witness ==
    /\ options.basePath = <<"a">>
    /\ Len(routes) >= 1
    /\ routes[1].path = <<"/", "a", "/", "g", "/", "b", "/", "u">>
    /\ hasRoute(<<"n">>)
    /\ Route(<<"n">>, <<>>).ok
    /\ Route(<<"n">>, <<>>).url = <<"/", "a", "/", "g", "/", "b", "/", "u">>
    /\ reqs[1].phase = "done"
    /\ reqs[1].path = <<"/", "g", "/", "b", "/", "u">>
    /\ reqs[1].outcome = "404"

-----------------------------------------------------------------------------
(* use() while requests are suspended in their chains (SpecCache)           *)

\* C33: a use() call made while a request is suspended inside its chain does
\* not change what that request goes on to execute: use() changes no request,
\* a request in flight keeps the chain it obtained when its dispatch started,
\* every middleware it enters is the one at that position of its chain, and
\* a dispatch that starts runs the middleware registered by then.
C33_UseKeepsInFlightChains ==
    /\ [][middlewares' # middlewares => reqs' = reqs]_vars
    /\ [][\A r \in Requests :
            (reqs[r].phase = "run" /\ reqs'[r].phase # "idle") =>
               reqs'[r].chain = reqs[r].chain]_vars
    /\ [](\A r \in Requests : \A e \in 1..Len(reqs[r].trace) :
            reqs[r].trace[e][1] = "before" =>
               /\ reqs[r].trace[e][2] \in 1..Len(reqs[r].chain)
               /\ reqs[r].trace[e][3] = reqs[r].chain[reqs[r].trace[e][2]])
    /\ [][\A r \in Requests :
            (reqs[r].phase = "idle" /\ reqs'[r].outcome = "exec") =>
               reqs'[r].chain
                  = middlewares \o routes[reqs'[r].route].middleware]_vars

\* request 1 is suspended in [w1], its chain from before use(w2); request 2
\* was dispatched after it and runs [w1, w2]
C33_Witness ==
    /\ middlewares = <<"w1", "w2">>
    /\ reqs[1].phase = "run"
    /\ reqs[1].chain = <<"w1">>
    /\ reqs[1].stack # <<>>
    /\ reqs[2].phase = "run"
    /\ reqs[2].route = reqs[1].route
    /\ reqs[2].chain = <<"w1", "w2">>
    /\ reqs[2].index = 2

-----------------------------------------------------------------------------
(* Chains with a middleware that calls next() twice                         *)

TwiceMws == {"tw", "w1", "sc"}

NextTwice ==
    \/ \E m \in TwiceMws : Use(m)
    \/ routes = <<>> /\ AppRoute("GET", PathU, "ok")
    \/ Len(routes) = 1 /\ GroupWith(GroupG(<<"tw">>), "GET", PathU, "ok")
    \/ \E p \in {PathU, PathGU} : Fetch(1, "GET", p)
    \/ StepNext(1)
    \/ StepHandler(1)
    \/ StepResume(1)
    \/ StepFinish(1)
    \/ Respond(1)

SpecTwice == Init /\ [][NextTwice]_vars

\* the chain positions of the middleware entered so far, in the order entered
RECURSIVE EnteredFrom(_, _)
EnteredFrom(trace, e) ==
    IF e > Len(trace) THEN <<>>
    ELSE (IF trace[e][1] = "before" THEN <<trace[e][2]>> ELSE <<>>)
         \o EnteredFrom(trace, e + 1)

HandlerCalls(q) == Cardinality({e \in 1..Len(q.trace) : q.trace[e][1] = "handler"})

\* C34: within one request the chain cursor never decreases; the middleware
\* entered are those at positions 1, 2, ... of the chain, in that order, each
\* once and as many as the cursor counts, however often a middleware calls
\* next(); when no middleware of the chain calls next() twice the handler is
\* invoked at most once; a next() call made when the cursor is past the end
\* of the chain invokes the handler, again if it was invoked before.
C34_CursorNeverDecreases ==
    /\ [][\A r \in Requests :
            (reqs[r].phase = "run" /\ reqs'[r].phase # "idle") =>
               reqs'[r].index >= reqs[r].index]_vars
    /\ [](\A r \in Requests :
            reqs[r].outcome = "exec" =>
               /\ reqs[r].index <= Len(reqs[r].chain)
               /\ EnteredFrom(reqs[r].trace, 1) = [k \in 1..reqs[r].index |-> k])
    /\ [](\A r \in Requests :
            (\A k \in 1..Len(reqs[r].chain) : MwKind(reqs[r].chain[k]) # "twice")
               => HandlerCalls(reqs[r]) <= 1)
    /\ [][\A r \in Requests :
            (/\ reqs[r].phase = "run"
             /\ reqs[r].ctl.k = "next"
             /\ reqs[r].index = Len(reqs[r].chain)
             /\ reqs'[r] # reqs[r]) =>
               /\ HandlerCalls(reqs'[r]) = HandlerCalls(reqs[r]) + 1
               /\ reqs'[r].ctl.k = "handler"]_vars

\* [tw, w1]: tw called next() twice; w1 was entered once, by the first call,
\* and the second call, the cursor being past the end, invoked the handler a
\* second time
C34_Witness ==
    /\ reqs[1].phase = "done"
    /\ reqs[1].chain = <<"tw", "w1">>
    /\ EnteredFrom(reqs[1].trace, 1) = <<1, 2>>
    /\ HandlerCalls(reqs[1]) = 2
    /\ reqs[1].response.status = 200

-----------------------------------------------------------------------------
(* The name map against the names getRoutes() reports (SpecUnique)          *)

\* the entries getRoutes() reports with the name n
EntriesNamed(n) ==
    {i \in 1..Len(routes) : getRoutes(routes)[i].name = Val("str", n)}

\* C35 as stated: the name map and the route table stay consistent: for
\* every name n, hasRoute(n) is true iff exactly one entry reported by
\* getRoutes() has the name n, and that entry is the one route(n, ...) builds
\* its URL from.
C35_AsStated ==
    \A n \in CollidingNames :
        /\ hasRoute(n) <=> Cardinality(EntriesNamed(n)) = 1
        /\ hasRoute(n) => namedRoutes[n] \in EntriesNamed(n)

-----------------------------------------------------------------------------
(* Collaborators that fail: every configuration of onNotFound,              *)
(* onMethodNotAllowed and onError, each returning a value or failing        *)

Collaborators == {"onNotFound", "onMethodNotAllowed", "onError"}

CollabOptions ==
    {[DefaultOptions EXCEPT !.onNotFound = nf, !.onError = oe,
                            !.onMethodNotAllowed = mna, !.rejects = rj] :
        nf \in BOOLEAN, oe \in BOOLEAN, mna \in {"none", "plain"},
        rj \in SUBSET Collaborators}

InitCollab == \E o \in CollabOptions : InitWith(o)

NextCollab ==
    \/ \E h \in {"ok", "throwErr"} : routes = <<>> /\ AppRoute("GET", PathU, h)
    \/ \E m \in {"GET", "PUT", "OPTIONS"}, p \in {PathU, <<"/", "x">>} :
          Fetch(1, m, p)
    \/ StepHandler(1)
    \/ StepFinish(1)
    \/ Respond(1)
    \/ Reject(1)

SpecCollab == InitCollab /\ [][NextCollab]_vars

\* C36 as stated: app.fetch resolves with a response for every request, also
\* when a configured onNotFound, onMethodNotAllowed or onError collaborator
\* throws or rejects: no request ends with the promise of app.fetch rejected,
\* and a request that has ended has a response with a status.
C36_AsStated ==
    \A r \in Requests :
        /\ reqs[r].phase # "rejected"
        /\ reqs[r].phase = "done" => reqs[r].response.status # 0

-----------------------------------------------------------------------------
(* HEAD requests in every way a request can end: a GET route whose handler  *)
(* returns or throws, a path with a POST route only, a path with no route   *)

NextHead ==
    \/ \E m \in {"GET", "POST"}, h \in {"ok", "throwErr"} :
          Len(routes) <= 1 /\ AppRoute(m, PathU, h)
    \/ \E m \in {"HEAD", "GET"}, p \in {PathU, <<"/", "x">>} : Fetch(1, m, p)
    \/ StepHandler(1)
    \/ StepFinish(1)
    \/ Respond(1)

SpecHead == InitWith(DefaultOptions) /\ [][NextHead]_vars

\* C37 as stated: every response returned for a HEAD request has an empty
\* body, whether the request ended in a matched route, as not found (404), as
\* method not allowed (405) or in the 500 response for an uncaught failure.
C37_AsStated ==
    \A r \in Requests :
        (reqs[r].phase = "done" /\ reqs[r].method = "HEAD") =>
           reqs[r].response.body = NullValue

\* the part that holds: the response of a HEAD request served by a route
\* whose handler returned has no body and keeps status and content type
HeadOfMatchedHasNoBody ==
    \A r \in Requests :
        (/\ reqs[r].phase = "done"
         /\ reqs[r].method = "HEAD"
         /\ reqs[r].outcome = "exec"
         /\ HandlerResult(routes[reqs[r].route].handler).k = "ret") =>
           /\ reqs[r].response.body = NullValue
           /\ reqs[r].response.status = 200

-----------------------------------------------------------------------------
(* The three lookups of routes/find.ts, called one after the other on the   *)
(* same table as handleOptions and handleRequest call them                  *)

InAllow(response, method) ==
    \E k \in 1..Len(response.allow.v) : response.allow.v[k] = method

\* hasMatchingPath(P) and the getAllowedMethods(P) that follows it agree
PathAgreesWithAllowed(rs, path) ==
    hasMatchingPath(rs, path) <=>
       getAllowedMethods(AfterHas(rs, path, 1), path) # <<>>

\* getAllowedMethods(P) and the findRoute(M, P) that follows it agree
AllowedAgreesWithFind(rs, method, path) ==
    (\E k \in 1..Len(getAllowedMethods(rs, path)) :
        getAllowedMethods(rs, path)[k] = method)
    <=> findRoute(AfterAllowed(rs, path, 1), method, path).found

\* C38 as stated: on every route table and path the three lookups agree, and
\* so the Allow list of a 405 response is never empty and never contains the
\* method that was refused.
C38_AsStated ==
    /\ \A p \in GlobalRequestPaths :
          /\ PathAgreesWithAllowed(routes, p)
          /\ \A k \in 1..Len(MethodOrder) :
                AllowedAgreesWithFind(routes, MethodOrder[k], p)
    /\ \A r \in Requests :
          (reqs[r].phase = "done" /\ reqs[r].response.status = 405) =>
             /\ reqs[r].response.allow.def
             /\ reqs[r].response.allow.v # <<>>
             /\ ~InAllow(reqs[r].response, reqs[r].method)

-----------------------------------------------------------------------------
(* where({...}) that throws at one of its entries                           *)

\* C39 as stated: a where({...}) call that throws because the string rule of
\* one entry does not compile leaves the constraints of the route exactly as
\* they were before the call.
C39_AsStated ==
    [][\A i \in 1..Len(routes) : \A entries \in ObjectForms :
          (/\ WhereAll(i, "reg", entries)
           /\ ~WhereEach(routes[i], entries, 1).ok) =>
             routes'[i].constraints = routes[i].constraints]_vars

-----------------------------------------------------------------------------
(* The Allow list against the methods that are dispatched to a handler      *)

\* the Allow list sent for path, on the OPTIONS 204 and on a 405, names method
AllowNames(rs, opts, path, method) ==
    /\ InAllow(handleOptions(path, rs, opts), method)
    /\ InAllow(handleMethodNotAllowed(path, rs, opts), method)

\* the part that holds: every method other than HEAD that is dispatched to a
\* handler for a path is in the Allow list computed for that path
AllowNamesRegisteredMethods ==
    \A p \in {PathU, <<"/", "x">>} : \A k \in 1..Len(MethodOrder) :
        (/\ MethodOrder[k] # "HEAD"
         /\ Outcome(routes, MethodOrder[k], p) = "exec") =>
           AllowNames(routes, options, p, MethodOrder[k])

\* C40 as stated: for every path matched by at least one entry, the Allow
\* list computed for it contains every method whose request for that path is
\* dispatched to a handler, HEAD served through the GET fallback included.
C40_AsStated ==
    \A p \in {PathU, <<"/", "x">>} : \A k \in 1..Len(MethodOrder) :
        (/\ hasMatchingPath(routes, p)
         /\ Outcome(routes, MethodOrder[k], p) = "exec") =>
           AllowNames(routes, options, p, MethodOrder[k])

====
